---- MODULE Spec2Model ----
(***************************************************************************)
(* Shot-boundary detection and highlight selection of the video            *)
(* summarizer (src/src/shot_detection.py, src/src/keyframes.py,            *)
(* src/src/distances.py).                                                  *)
(*                                                                         *)
(* Conventions                                                             *)
(*  - times and durations are whole ticks (float64 values);                 *)
(*  - Python lists / numpy arrays are sequences; a Python index i is the   *)
(*    TLA+ position i + 1, index lists hold Python indices;                *)
(*  - real values are exact rationals: the smoothed series is a sequence   *)
(*    of numerators over the common denominator smooth_den, the threshold  *)
(*    is a record [nan, num, den]; rounding of arithmetic is not modelled, *)
(*    the conversion of times to float32 in keyframes.py is (ToFloat32);   *)
(*  - percentiles are in tenths of a percent (95.0 is 950);                *)
(*  - an Optional value is <<>> (None) or <<v>>.                           *)
(* Each action is one function of the source (or one statement group of    *)
(* detect_shot_boundaries); entry names the function the caller invoked    *)
(* and pc the function that runs next.                                     *)
(***************************************************************************)
EXTENDS Integers, Sequences, FiniteSets, TLC

VARIABLES
    entry,              \* the function the caller invoked
    pc,                 \* the function (or statement group) that runs next
    error,              \* "none", or the exception that ended the call
    stages,             \* the functions that have run, in call order
    dist_times,         \* detect_shot_boundaries: dist_times
    distances,          \* detect_shot_boundaries: distances / moving_average: x
    params,             \* ShotDetectionParams
    video_duration_sec, \* Optional: <<>> or <<seconds>>
    smoothed,           \* numerators of the smoothed series / scores
    smooth_den,         \* their common denominator
    thr,                \* threshold [nan, num, den]
    candidates,         \* find_local_maxima result / non_max_suppression indices
    min_gap,            \* suppression gap in samples
    peaks,              \* non_max_suppression result
    boundaries_sec,     \* the boundary list a caller passed directly
    boundary_times,     \* boundary list: detect_shot_boundaries' local, results
    shots,              \* build_shots result: sequence of [start_sec, end_sec]
    sampled_frames,     \* sequence of [timestamp_sec, sharpness, level]
    segment_duration,   \* select_highlight_segments: segment_duration
    weights,            \* [w_sharpness, w_motion], in tenths
    keyframes,          \* pick_keyframes_middle result (frame indices) /
                        \* pick_keyframes_best result (ScoredKeyframe records)
    highlights,         \* select_highlight_segments result
    vec_p, vec_q,       \* chi_square_distance / combined_distance: hsv pair
    edge_p, edge_q,     \* combined_distance: edge pair
    dist,               \* distance result: sequence of per-bin terms
    call_kwargs,        \* summarize: the keyword arguments of the call
    arguments,          \* summarize: the parameters as bound by the call
    av_args,            \* make_summary_with_audio: segments, cleanup_temp, and
                        \* whether the input file and ffmpeg are found
    av,                 \* make_summary_with_audio: its locals, the ffmpeg runs
                        \* made, the segment files in the temp directory and
                        \* the value returned
    sv_args,            \* make_summary_video: secs_per_shot and max_duration
                        \* (tenths of a second), and the video as OpenCV
                        \* presents it
    sv                  \* make_summary_video: its locals, the capture's
                        \* position, the seeks, reads and writes made and the
                        \* value returned

vars == <<entry, pc, error, stages, dist_times, distances, params,
          video_duration_sec, smoothed, smooth_den, thr, candidates, min_gap,
          peaks, boundaries_sec, boundary_times, shots, sampled_frames,
          segment_duration,
          weights, keyframes, highlights, vec_p, vec_q, edge_p, edge_q, dist,
          call_kwargs, arguments, av_args, av, sv_args,
          sv>>

-----------------------------------------------------------------------------
(* Bounds of the model *)

\* longest distance series / score array
MaxLen == 5
\* longest candidate index list and boundary list passed directly
MaxList == 3
\* largest time stamp of a directly passed boundary, shot or frame
MaxTime == 6
\* longest feature vector
MaxVecLen == 3
\* most sampled frames
MaxFrames == 3

-----------------------------------------------------------------------------
(* Generic helpers *)

Range(s) == {s[i] : i \in DOMAIN s}

SeqsUpTo(S, n) == UNION {[1..k -> S] : k \in 0..n}

Max2(a, b) == IF a >= b THEN a ELSE b

Min2(a, b) == IF a <= b THEN a ELSE b

Abs(a) == IF a < 0 THEN -a ELSE a

SetMin(S) == CHOOSE m \in S : \A y \in S : m <= y

SetMax(S) == CHOOSE m \in S : \A y \in S : m >= y

RECURSIVE SumSeq(_)
SumSeq(s) == IF s = <<>> THEN 0 ELSE Head(s) + SumSeq(Tail(s))

\* Python sorted() on numbers: ascending insertion sort
RECURSIVE InsertAsc(_, _)
InsertAsc(s, v) ==
    IF s = <<>> THEN <<v>>
    ELSE IF v < Head(s) THEN <<v>> \o s
    ELSE <<Head(s)>> \o InsertAsc(Tail(s), v)

RECURSIVE Sorted(_)
Sorted(s) ==
    IF s = <<>> THEN <<>>
    ELSE InsertAsc(Sorted(SubSeq(s, 1, Len(s) - 1)), s[Len(s)])

\* sorted(set(s))
RECURSIVE SetToSorted(_)
SetToSorted(S) ==
    IF S = {} THEN <<>>
    ELSE LET m == SetMin(S) IN <<m>> \o SetToSorted(S \ {m})

StrictlyAscending(s) == \A i \in 1..(Len(s) - 1) : s[i] < s[i + 1]

\* Python round() of the rational n / d (n >= 0, d > 0): half to even
RoundHalfEven(n, d) ==
    LET qt == n \div d
        r == n % d
    IN  IF 2 * r < d THEN qt
        ELSE IF 2 * r > d THEN qt + 1
        ELSE IF qt % 2 = 0 THEN qt ELSE qt + 1

-----------------------------------------------------------------------------
(* shot_detection.py *)

\* ShotDetectionParams defaults
DefaultParams ==
    [smooth_win |-> 7, threshold_percentile |-> 950, min_shot_len_sec |-> 1,
     min_gap_sec |-> 2, min_shot_duration_sec |-> 2]

\* np.convolve(x, ones(win) / win, mode="same") for win > 1 and len(x) >= 1:
\* the centred slice of the full convolution, max(len(x), win) samples long.
\* Numerators over the denominator win.
ConvolveSame(x, win) ==
    LET n == Len(x)
        outLen == Max2(n, win)
        short == Min2(n, win)
        off == short - 1 - (short \div 2)
        Full(m) == SumSeq([j \in 1..n |->
                      IF m - (j - 1) >= 0 /\ m - (j - 1) <= win - 1
                      THEN x[j] ELSE 0])
    IN  [k \in 1..outLen |-> Full(k - 1 + off)]

\* moving_average: outcome [error, series, den]
moving_average(x, win) ==
    IF win <= 1 THEN [error |-> "none", series |-> x, den |-> 1]
    ELSE IF Len(x) = 0
         THEN [error |-> "ValueError", series |-> <<>>, den |-> 1]
         ELSE [error |-> "none", series |-> ConvolveSame(x, win), den |-> win]

\* np.clip(percentile, 50.0, 99.9)
ClipLo == 500
ClipHi == 999
\* faulty variant: the upper clip at 100.0
ClipPercentileTo100(p) == Max2(ClipLo, Min2(p, 1000))

ClipPercentile(p) == Max2(ClipLo, Min2(p, ClipHi))

\* faulty variant: the interpolation adds the sum of the neighbours, not their
\* difference
LerpSum(a, b, rem) == a * 1000 + (b + a) * rem

\* interpolation a + (b - a) * t of np.percentile, t = rem / 1000
Lerp(a, b, rem) == a * 1000 + (b - a) * rem

\* np.percentile(x, p) of a non-empty series, linear interpolation between
\* the order statistics around the virtual index (n - 1) * p / 100;
\* numerator over 1000
Percentile(x, p) ==
    LET s == Sorted(x)
        n == Len(s)
        v == (n - 1) * p
        lo == v \div 1000
        hi == Min2(lo + 1, n - 1)
    IN  Lerp(s[lo + 1], s[hi + 1], v % 1000)

\* auto_threshold on a non-empty series: [nan, num, den]
auto_threshold(x, den, percentile) ==
    [nan |-> FALSE, num |-> Percentile(x, ClipPercentile(percentile)),
     den |-> 1000 * den]

NaN == [nan |-> TRUE, num |-> 0, den |-> 1]

\* x[i] >= thr for the numerator v over den
GeqThr(v, den, t) == ~t.nan /\ v * t.den >= t.num * den

\* faulty variant: a sample equal to its predecessor is accepted
find_local_maxima_nonstrict(x, den, t) ==
    LET ok(i) == /\ GeqThr(x[i + 1], den, t)
                 /\ x[i + 1] >= x[i]
                 /\ x[i + 1] >= x[i + 2]
    IN  SetToSorted({i \in 1..(Len(x) - 2) : ok(i)})

\* find_local_maxima: Python indices, ascending
find_local_maxima(x, den, t) ==
    LET ok(i) == /\ GeqThr(x[i + 1], den, t)
                 /\ x[i + 1] > x[i]
                 /\ x[i + 1] >= x[i + 2]
    IN  SetToSorted({i \in 1..(Len(x) - 2) : ok(i)})

\* faulty variant: among equal scores the later candidate comes first
RECURSIVE InsertDescTiesFirst(_, _, _)
InsertDescTiesFirst(s, i, scores) ==
    IF s = <<>> THEN <<i>>
    ELSE IF scores[i + 1] >= scores[Head(s) + 1] THEN <<i>> \o s
    ELSE <<Head(s)>> \o InsertDescTiesFirst(Tail(s), i, scores)

\* sorted(indices, key=scores, reverse=True): stable, descending
RECURSIVE InsertDesc(_, _, _)
InsertDesc(s, i, scores) ==
    IF s = <<>> THEN <<i>>
    ELSE IF scores[i + 1] > scores[Head(s) + 1] THEN <<i>> \o s
    ELSE <<Head(s)>> \o InsertDesc(Tail(s), i, scores)

RECURSIVE SortByScoreDesc(_, _)
SortByScoreDesc(indices, scores) ==
    IF indices = <<>> THEN <<>>
    ELSE InsertDesc(SortByScoreDesc(SubSeq(indices, 1, Len(indices) - 1), scores),
                    indices[Len(indices)], scores)

\* faulty variant: a candidate exactly min_gap samples away is accepted
FarFromAllInclusive(i, selected, gap) ==
    \A k \in DOMAIN selected : Abs(i - selected[k]) >= gap

\* the acceptance test of the greedy loop
FarFromAll(i, selected, gap) == \A k \in DOMAIN selected : Abs(i - selected[k]) > gap

RECURSIVE GreedySelect(_, _, _)
GreedySelect(sortedIdx, selected, gap) ==
    IF sortedIdx = <<>> THEN selected
    ELSE LET i == Head(sortedIdx)
         IN  GreedySelect(Tail(sortedIdx),
                          IF FarFromAll(i, selected, gap)
                          THEN Append(selected, i) ELSE selected,
                          gap)

non_max_suppression(indices, scores, gap) ==
    IF indices = <<>> THEN <<>>
    ELSE Sorted(GreedySelect(SortByScoreDesc(indices, scores), <<>>, gap))

\* the keep test of merge_close_boundaries
FarEnough(b, last, gap) == b - last >= gap

RECURSIVE MergeLoop(_, _, _)
MergeLoop(rest, merged, gap) ==
    IF rest = <<>> THEN merged
    ELSE MergeLoop(Tail(rest),
                   IF FarEnough(Head(rest), merged[Len(merged)], gap)
                   THEN Append(merged, Head(rest)) ELSE merged,
                   gap)

\* faulty variant: the early return also taken for two boundaries
merge_close_boundaries_early(b, gap) ==
    IF Len(b) <= 2 THEN b
    ELSE LET sorted_b == Sorted(b)
         IN  MergeLoop(Tail(sorted_b), <<Head(sorted_b)>>, gap)

merge_close_boundaries(b, gap) ==
    IF Len(b) <= 1 THEN b
    ELSE LET sorted_b == Sorted(b)
         IN  MergeLoop(Tail(sorted_b), <<Head(sorted_b)>>, gap)

\* faulty variant: the 0.5 factor applied to every candidate
RECURSIVE FilterLoopRelaxedEverywhere(_, _, _, _, _)
FilterLoopRelaxedEverywhere(sorted_b, i, filtered, duration, min_duration) ==
    IF i > Len(sorted_b) - 1 THEN filtered
    ELSE LET current == sorted_b[i + 1]
             prev == filtered[Len(filtered)]
             shot_duration == current - prev
             last == (i = Len(sorted_b) - 1)
             next_shot_duration ==
                 IF ~last THEN sorted_b[i + 2] - current ELSE duration - current
             keep ==
                 \/ shot_duration >= min_duration /\ next_shot_duration >= min_duration
                 \/ /\ shot_duration >= min_duration
                    /\ 2 * next_shot_duration >= min_duration
         IN  FilterLoopRelaxedEverywhere(sorted_b, i + 1,
                        IF keep THEN Append(filtered, current) ELSE filtered,
                        duration, min_duration)

\* faulty variant: no relaxed rule for the last candidate
RECURSIVE FilterLoopStrictLast(_, _, _, _, _)
FilterLoopStrictLast(sorted_b, i, filtered, duration, min_duration) ==
    IF i > Len(sorted_b) - 1 THEN filtered
    ELSE LET current == sorted_b[i + 1]
             prev == filtered[Len(filtered)]
             shot_duration == current - prev
             last == (i = Len(sorted_b) - 1)
             next_shot_duration ==
                 IF ~last THEN sorted_b[i + 2] - current ELSE duration - current
             keep == shot_duration >= min_duration /\ next_shot_duration >= min_duration
         IN  FilterLoopStrictLast(sorted_b, i + 1,
                        IF keep THEN Append(filtered, current) ELSE filtered,
                        duration, min_duration)

\* faulty variant: the shot before a candidate is not tested
RECURSIVE FilterLoopNextOnly(_, _, _, _, _)
FilterLoopNextOnly(sorted_b, i, filtered, duration, min_duration) ==
    IF i > Len(sorted_b) - 1 THEN filtered
    ELSE LET current == sorted_b[i + 1]
             last == (i = Len(sorted_b) - 1)
             next_shot_duration ==
                 IF ~last THEN sorted_b[i + 2] - current ELSE duration - current
             keep ==
                 \/ next_shot_duration >= min_duration
                 \/ last /\ 2 * next_shot_duration >= min_duration
         IN  FilterLoopNextOnly(sorted_b, i + 1,
                        IF keep THEN Append(filtered, current) ELSE filtered,
                        duration, min_duration)

RECURSIVE FilterLoop(_, _, _, _, _)
FilterLoop(sorted_b, i, filtered, duration, min_duration) ==
    IF i > Len(sorted_b) - 1 THEN filtered
    ELSE LET current == sorted_b[i + 1]
             prev == filtered[Len(filtered)]
             shot_duration == current - prev
             last == (i = Len(sorted_b) - 1)
             next_shot_duration ==
                 IF ~last THEN sorted_b[i + 2] - current ELSE duration - current
             keep ==
                 \/ shot_duration >= min_duration /\ next_shot_duration >= min_duration
                 \/ /\ shot_duration >= min_duration
                    /\ last
                    /\ 2 * next_shot_duration >= min_duration
         IN  FilterLoop(sorted_b, i + 1,
                        IF keep THEN Append(filtered, current) ELSE filtered,
                        duration, min_duration)

filter_short_shots(b, duration, min_duration) ==
    IF Len(b) <= 1 THEN b
    ELSE LET sorted_b == Sorted(b)
         IN  FilterLoop(sorted_b, 1, <<Head(sorted_b)>>, duration, min_duration)

\* faulty variant: the boundary list without set() and sorted()
CollectBoundariesNoSet(times, pk) == <<0>> \o [k \in DOMAIN pk |-> times[pk[k] + 1]]

\* boundary_times = sorted(set([0.0] + [dist_times[i] for i in peaks]))
CollectBoundaries(times, pk) ==
    SetToSorted({0} \cup {times[pk[k] + 1] : k \in DOMAIN pk})

\* np.median(np.diff(dist_times)), doubled (the mean of the two middle
\* differences when their number is even)
MedianDiff2(times) ==
    LET d == Sorted([i \in 1..(Len(times) - 1) |-> times[i + 1] - times[i]])
        n == Len(d)
    IN  IF n % 2 = 1 THEN 2 * d[(n + 1) \div 2]
        ELSE d[n \div 2] + d[n \div 2 + 1]

\* faulty variant: dt = 0.1 whatever the sample times
MinGapSamplesFixedDt(times, min_shot_len_sec) == 10 * min_shot_len_sec

\* min_gap = int(round(min_shot_len_sec / max(dt, 1e-6))), dt = 0.1 for at
\* most two samples
MinGapSamples(times, min_shot_len_sec) ==
    IF Len(times) > 2
    THEN LET dt2 == MedianDiff2(times)
         IN  IF dt2 <= 0 THEN min_shot_len_sec * 1000000
             ELSE RoundHalfEven(2 * min_shot_len_sec, dt2)
    ELSE 10 * min_shot_len_sec

-----------------------------------------------------------------------------
(* keyframes.py *)

\* faulty variant: shots of zero length are kept
RECURSIVE BuildLoopKeepEmpty(_, _, _, _)
BuildLoopKeepEmpty(b, i, duration, acc) ==
    IF i > Len(b) - 1 THEN acc
    ELSE LET start == b[i + 1]
             end == IF i + 1 < Len(b) THEN b[i + 2] ELSE duration
         IN  BuildLoopKeepEmpty(b, i + 1, duration,
                       IF end >= start
                       THEN Append(acc, [start_sec |-> start, end_sec |-> end])
                       ELSE acc)

RECURSIVE BuildLoop(_, _, _, _)
BuildLoop(b, i, duration, acc) ==
    IF i > Len(b) - 1 THEN acc
    ELSE LET start == b[i + 1]
             end == IF i + 1 < Len(b) THEN b[i + 2] ELSE duration
         IN  BuildLoop(b, i + 1, duration,
                       IF end > start
                       THEN Append(acc, [start_sec |-> start, end_sec |-> end])
                       ELSE acc)

build_shots(b, duration) == BuildLoop(Sorted(b), 0, duration, <<>>)

\* conversion of the time n / d to float32 (np.array(..., dtype=np.float32),
\* and a Python float operand of a float32 array): float32 keeps one bit
\* less than float64, so only the even times are float32 values; the nearest
\* one is taken, a tie going to the even mantissa. Sums and differences of
\* float32 values are exact.
ToFloat32(n, d) == 2 * RoundHalfEven(n, 2 * d)

\* times = np.array([f.timestamp_sec ...], dtype=np.float32), at Python index i
TimesF32(frames, i) == ToFloat32(frames[i + 1].timestamp_sec, 1)

\* int(np.argmin(np.abs(times - mid))), mid = 0.5 * (start + end): the first
\* frame index at minimum distance (frames non-empty)
ClosestToMid(frames, shot) ==
    LET mid == ToFloat32(shot.start_sec + shot.end_sec, 2)
        d(i) == Abs(TimesF32(frames, i) - mid)
    IN  SetMin({i \in 0..(Len(frames) - 1) :
                  \A j \in 0..(Len(frames) - 1) : d(i) <= d(j)})

\* pick_keyframes_middle: outcome [error, frames]; np.argmin of an empty
\* array raises ValueError
pick_keyframes_middle(shotList, frames) ==
    IF shotList = <<>> THEN [error |-> "none", frames |-> <<>>]
    ELSE IF frames = <<>> THEN [error |-> "ValueError", frames |-> <<>>]
    ELSE [error |-> "none",
          frames |-> [k \in DOMAIN shotList |-> ClosestToMid(frames, shotList[k])]]

\* score_frame_motion: mean absolute difference of two images (0.0 without a
\* previous image)
score_frame_motion(prev, frame) ==
    IF prev = <<>> THEN 0 ELSE Abs(prev[1].level - frame.level)

\* normalisation constants of score_frame
SharpnessCap == 1000
MotionCap == 50

\* the unit of a combined score: weights are tenths, so 1.0 is
\* 10 * SharpnessCap * MotionCap
ScoreOne == 10 * SharpnessCap * MotionCap

\* score_frame(...)[2]: the combined score, in units of 1 / ScoreOne
score_frame(frame, prev, w_sharpness, w_motion) ==
    LET norm_sharpness == Min2(frame.sharpness, SharpnessCap)
        norm_motion == Max2(0, MotionCap - score_frame_motion(prev, frame))
    IN  w_sharpness * norm_sharpness * MotionCap + w_motion * norm_motion * SharpnessCap

\* default weights of score_frame, in tenths
DefaultWSharpness == 7
DefaultWMotion == 3

\* np.where((times >= lo) & (times < hi))[0]: frame indices, ascending; the
\* comparisons are float32 comparisons
FramesIn(frames, lo, hi) ==
    SetToSorted({i \in 0..(Len(frames) - 1) :
                   /\ TimesF32(frames, i) >= ToFloat32(lo, 1)
                   /\ TimesF32(frames, i) < ToFloat32(hi, 1)})

\* the scoring loop of pick_keyframes_best over the frame indices idx of one
\* shot, from position k; best is (best_frame, best_scores), frame <<>>
\* being None
RECURSIVE BestLoop(_, _, _, _, _, _)
BestLoop(frames, idx, k, best, w_sharpness, w_motion) ==
    IF k > Len(idx) THEN best
    ELSE LET frame == frames[idx[k] + 1]
             prev_image == IF k > 1 THEN <<frames[idx[k - 1] + 1]>> ELSE <<>>
             combined == score_frame(frame, prev_image, w_sharpness, w_motion)
         IN  BestLoop(frames, idx, k + 1,
                      IF combined > best.combined_score
                      THEN [frame |-> <<idx[k]>>,
                            sharpness_score |-> frame.sharpness,
                            motion_score |-> score_frame_motion(prev_image, frame),
                            combined_score |-> combined]
                      ELSE best,
                      w_sharpness, w_motion)

\* the frames pick_keyframes_best scores for a shot: those inside it, or the
\* one closest to its midpoint (frames non-empty)
ShotFrameIndices(frames, shot) ==
    LET inShot == FramesIn(frames, shot.start_sec, shot.end_sec)
    IN  IF inShot = <<>> THEN <<ClosestToMid(frames, shot)>> ELSE inShot

\* faulty variant: prev_image is not reset for a later shot, whose first frame
\* is scored against the frame before it in the sequence
ScoredKeyframeOfCarry(frames, shot, shot_idx, w_sharpness, w_motion) ==
    LET idx == ShotFrameIndices(frames, shot)
        first == frames[idx[1] + 1]
        carried == IF shot_idx > 0 /\ idx[1] > 0 THEN <<frames[idx[1]]>> ELSE <<>>
        best == BestLoop(frames, idx, 2,
                         [frame |-> <<idx[1]>>, sharpness_score |-> first.sharpness,
                          motion_score |-> score_frame_motion(carried, first),
                          combined_score |-> score_frame(first, carried, w_sharpness,
                                                         w_motion)],
                         w_sharpness, w_motion)
    IN  <<[frame |-> best.frame[1],
           sharpness_score |-> best.sharpness_score,
           motion_score |-> best.motion_score,
           combined_score |-> best.combined_score,
           shot_index |-> shot_idx]>>

\* the ScoredKeyframe of one shot, as a list of at most one element
ScoredKeyframeOf(frames, shot, shot_idx, w_sharpness, w_motion) ==
    LET best == BestLoop(frames, ShotFrameIndices(frames, shot), 1,
                         [frame |-> <<>>, sharpness_score |-> 0, motion_score |-> 0,
                          combined_score |-> -ScoreOne],
                         w_sharpness, w_motion)
    IN  IF best.frame = <<>> THEN <<>>
        ELSE <<[frame |-> best.frame[1],
                sharpness_score |-> best.sharpness_score,
                motion_score |-> best.motion_score,
                combined_score |-> best.combined_score,
                shot_index |-> shot_idx]>>

RECURSIVE BestOfShots(_, _, _, _, _)
BestOfShots(shotList, k, frames, w_sharpness, w_motion) ==
    IF k > Len(shotList) THEN <<>>
    ELSE ScoredKeyframeOf(frames, shotList[k], k - 1, w_sharpness, w_motion)
         \o BestOfShots(shotList, k + 1, frames, w_sharpness, w_motion)

\* pick_keyframes_best: outcome [error, keyframes]; np.argmin of an empty
\* array raises ValueError when a shot holds no frame and there is none at all
pick_keyframes_best(shotList, frames, w_sharpness, w_motion) ==
    IF shotList # <<>> /\ frames = <<>>
    THEN [error |-> "ValueError", keyframes |-> <<>>]
    ELSE [error |-> "none",
          keyframes |-> BestOfShots(shotList, 1, frames, w_sharpness, w_motion)]

\* a mean as the rational num / den
Mean(scores) == [num |-> SumSeq(scores), den |-> Len(scores)]

RatGt(a, b) == a.num * b.den > b.num * a.den

\* the scores of a window's frames, each against the previous frame of the
\* window
WindowScores(frames, idx, w_sharpness, w_motion) ==
    [k \in DOMAIN idx |->
        score_frame(frames[idx[k] + 1],
                    IF k = 1 THEN <<>> ELSE <<frames[idx[k - 1] + 1]>>,
                    w_sharpness, w_motion)]

RECURSIVE WindowLoop(_, _, _, _, _, _)
WindowLoop(starts, best, frames, seg, w_sharpness, w_motion) ==
    IF starts = <<>> THEN best
    ELSE LET win_start == Head(starts)
             win_end == win_start + seg
             idx == FramesIn(frames, win_start, win_end)
             avg == Mean(WindowScores(frames, idx, w_sharpness, w_motion))
             better == idx # <<>> /\ RatGt(avg, best.score)
         IN  WindowLoop(Tail(starts),
                        IF better
                        THEN [start_sec |-> win_start, end_sec |-> win_end, score |-> avg]
                        ELSE best,
                        frames, seg, w_sharpness, w_motion)

\* whether a window starting at the float32 time t ends inside the shot
\* (line 220, float32 arithmetic)
WindowFits(t, seg, shot) == t + ToFloat32(seg, 1) <= ToFloat32(shot.end_sec, 1)

\* the candidate window starts of a long shot: float32 time stamps, or the
\* shot's own start
WindowStarts(frames, shot, seg) ==
    LET inShot == FramesIn(frames, shot.start_sec, shot.end_sec)
        all == [k \in DOMAIN inShot |-> TimesF32(frames, inShot[k])]
        fit == SelectSeq(all, LAMBDA t : WindowFits(t, seg, shot))
    IN  IF fit = <<>> THEN <<shot.start_sec>> ELSE fit

\* the body of the loop over shots of select_highlight_segments
HighlightOf(shot, shot_idx, frames, seg, w_sharpness, w_motion) ==
    LET inShot == FramesIn(frames, shot.start_sec, shot.end_sec)
        half == [num |-> ScoreOne, den |-> 2]
    IN  IF shot.end_sec - shot.start_sec <= seg
        THEN [start_sec |-> shot.start_sec, end_sec |-> shot.end_sec,
              score |-> IF inShot # <<>>
                        THEN Mean([k \in DOMAIN inShot |->
                                     score_frame(frames[inShot[k] + 1], <<>>,
                                                 DefaultWSharpness, DefaultWMotion)])
                        ELSE half,
              shot_index |-> shot_idx]
        ELSE IF Len(inShot) < 2
        THEN [start_sec |-> shot.start_sec, end_sec |-> shot.start_sec + seg,
              score |-> half, shot_index |-> shot_idx]
        ELSE LET best == WindowLoop(WindowStarts(frames, shot, seg),
                                    [start_sec |-> shot.start_sec,
                                     end_sec |-> shot.start_sec + seg,
                                     score |-> [num |-> 0, den |-> 1]],
                                    frames, seg, w_sharpness, w_motion)
             IN  [start_sec |-> best.start_sec, end_sec |-> best.end_sec,
                  score |-> best.score, shot_index |-> shot_idx]

\* faulty variant: a shot with fewer than two frames inside gets no segment
select_highlight_segments_skip(shotList, frames, seg, w_sharpness, w_motion) ==
    SelectSeq([k \in DOMAIN shotList |->
                  HighlightOf(shotList[k], k - 1, frames, seg, w_sharpness, w_motion)],
              LAMBDA h : Len(FramesIn(frames, shotList[h.shot_index + 1].start_sec,
                                      shotList[h.shot_index + 1].end_sec)) >= 2)

select_highlight_segments(shotList, frames, seg, w_sharpness, w_motion) ==
    [k \in DOMAIN shotList |->
        HighlightOf(shotList[k], k - 1, frames, seg, w_sharpness, w_motion)]

-----------------------------------------------------------------------------
(* distances.py *)

\* numpy broadcasting of two 1-d operands: equal lengths, or one of length 1
Broadcastable(lp, lq) == lp = lq \/ lp = 1 \/ lq = 1

BroadcastLen(lp, lq) == IF lp = 1 THEN lq ELSE lp

\* chi_square_distance: outcome [error, terms]; the distance is
\* 0.5 * sum(num / (den + 1e-8)) over the terms, each weighted by w tenths.
\* Bin values are whole ticks of the float64 resolution; p and q are
\* converted to float32 first (lines 10-11).
chi_square_distance(vp, vq, w) ==
    IF ~Broadcastable(Len(vp), Len(vq))
    THEN [error |-> "ValueError", terms |-> <<>>]
    ELSE LET at(v, k) == ToFloat32(IF Len(v) = 1 THEN v[1] ELSE v[k], 1)
         IN  [error |-> "none",
              terms |-> [k \in 1..BroadcastLen(Len(vp), Len(vq)) |->
                           [w |-> w,
                            num |-> (at(vp, k) - at(vq, k)) * (at(vp, k) - at(vq, k)),
                            den |-> at(vp, k) + at(vq, k)]]]

\* default weights of combined_distance, in tenths
DefaultWHsv == 7
DefaultWEdge == 3

combined_distance(hsv1, hsv2, edge1, edge2) ==
    LET d_hsv == chi_square_distance(hsv1, hsv2, DefaultWHsv)
        d_edge == chi_square_distance(edge1, edge2, DefaultWEdge)
    IN  IF d_hsv.error # "none" THEN d_hsv
        ELSE IF d_edge.error # "none" THEN d_edge
        ELSE [error |-> "none", terms |-> d_hsv.terms \o d_edge.terms]

-----------------------------------------------------------------------------
(* summarize.py *)

\* the parameters of summarize without a default (lines 71-72)
SummarizeRequired == {"input_path", "output_dir"}

\* the parameters of summarize with their defaults, numbers in tenths
\* (lines 73-76)
SummarizeDefaults ==
    [fps_sample |-> 40, threshold_percentile |-> 920, min_shot_duration |-> 30,
     secs_per_shot |-> 25]

SummarizeParameters == SummarizeRequired \cup DOMAIN SummarizeDefaults

\* the binding of a call's keyword arguments to the parameters: outcome
\* [error, arguments]; Python raises TypeError for a keyword that is not a
\* parameter and for a missing required argument
BindSummarize(kwargs) ==
    IF ~(DOMAIN kwargs \subseteq SummarizeParameters)
         \/ ~(SummarizeRequired \subseteq DOMAIN kwargs)
    THEN [error |-> "TypeError", arguments |-> <<>>]
    ELSE [error |-> "none",
          arguments |-> [n \in SummarizeParameters |->
                           IF n \in DOMAIN kwargs THEN kwargs[n]
                           ELSE SummarizeDefaults[n]]]

-----------------------------------------------------------------------------
(* av_concat.py *)

\* make_summary_with_audio before its loop: i the segment being cut,
\* segment_paths and failed_segments hold segment indices (seg_0000.mp4 is 0),
\* runs the ffmpeg processes run so far, temp_files the segment files present
\* in the temp directory, result <<>> until the function returns
AvStart ==
    [i |-> 0, segment_paths |-> <<>>, failed_segments |-> <<>>, runs |-> <<>>,
     temp_files |-> {}, result |-> <<>>]

\* one ffmpeg process run by cut_segment
CutRun(i, stream_copy, ok) ==
    [op |-> "cut", segment |-> i, inputs |-> <<>>, stream_copy |-> stream_copy,
     ok |-> ok]

\* one ffmpeg process run by concat_segments on the concat list of
\* segment_paths
ConcatRun(segment_paths, stream_copy, ok) ==
    [op |-> "concat", segment |-> -1, inputs |-> segment_paths,
     stream_copy |-> stream_copy, ok |-> ok]

\* faulty variant: a cut segment is put in front of the list
RecordCutInFront(a, success) ==
    IF success THEN [a EXCEPT !.segment_paths = <<a.i>> \o @,
                              !.temp_files = @ \cup {a.i}]
    ELSE [a EXCEPT !.failed_segments = Append(@, a.i)]

\* lines 261-265: the segment cut goes to segment_paths (cut_segment returned
\* True, so its file exists), the one that failed to failed_segments
RecordCut(a, success) ==
    IF success THEN [a EXCEPT !.segment_paths = Append(@, a.i),
                              !.temp_files = @ \cup {a.i}]
    ELSE [a EXCEPT !.failed_segments = Append(@, a.i)]

\* the finally block, lines 287-297: the files of segment_paths are removed
Cleanup(a, cleanup_temp) ==
    IF cleanup_temp THEN [a EXCEPT !.temp_files = @ \ Range(a.segment_paths)] ELSE a

\* return of make_summary_with_audio: the value, then the finally block
AvReturn(a, success, message, cleanup_temp) ==
    Cleanup([a EXCEPT !.result = <<[success |-> success, message |-> message,
                                    segments |-> Len(a.segment_paths),
                                    failed |-> a.failed_segments]>>],
            cleanup_temp)

\* the loop of line 250 after segment i: the next segment, or step 2
AfterSegment(i, segments) ==
    IF i + 1 < Len(segments) THEN "cut_stream_copy" ELSE "concat_stream_copy"

-----------------------------------------------------------------------------
(* summary_video.py *)

\* a video as cv2 presents it: whether the capture opens, CAP_PROP_FPS (whole
\* frames per second), CAP_PROP_FRAME_COUNT, the number of frames cap.read()
\* can deliver (the frame count of the container is an estimate), and
\* whether a VideoWriter can be opened (mp4v or XVID)
NoVideo == [opened |-> FALSE, fps |-> 0, total_frames |-> 0, readable |-> 0,
            writer_opens |-> FALSE]

\* make_summary_video before its loop: shot_idx the position of the loop over
\* shots, remaining the iterations left of the loop over frames, pos the
\* capture's position, writer "none" or "open"; seeks, reads and writes are
\* the calls of cap.set, cap.read and writer.write made so far, each with the
\* shot it was made for and the value of written at the call
SvStart ==
    [shot_idx |-> 0, written |-> 0, remaining |-> 0, pos |-> 0, writer |-> "none",
     seeks |-> <<>>, reads |-> <<>>, writes |-> <<>>, result |-> <<>>]

\* int(round(t * fps)) for a time of whole seconds
FrameAt(t, fps) == RoundHalfEven(t * fps, 1)

\* int(round(secs_per_shot * fps)), secs_per_shot in tenths; a negative
\* secs_per_shot leaves no frame to copy, as 0 does
seg_frames_of(secs_per_shot, fps) == RoundHalfEven(Max2(0, secs_per_shot) * fps, 10)

\* faulty variant: the limit rounded to the nearest frame
max_frames_rounded(max_duration, fps) ==
    IF max_duration > 0 THEN <<RoundHalfEven(max_duration * fps, 10)>> ELSE <<>>

\* line 50: int(max_duration * fps) if max_duration > 0 else float('inf'),
\* infinity being <<>>; max_duration in tenths
max_frames(max_duration, fps) ==
    IF max_duration > 0 THEN <<(max_duration * fps) \div 10>> ELSE <<>>

\* written >= max_frames (lines 75 and 96)
LimitReached(written, limit) == limit # <<>> /\ written >= limit[1]

\* lines 78-88: the frame range [start_frame, end_frame) of a shot
ShotFrameRange(shot, written, a) ==
    LET fps == a.video.fps
        limit == max_frames(a.max_duration, fps)
        start_frame == FrameAt(shot.start_sec, fps)
        seg_frames == seg_frames_of(a.secs_per_shot, fps)
        remaining_frames == IF a.max_duration > 0 THEN limit[1] - written ELSE seg_frames
        end_frame_by_secs == start_frame + Min2(seg_frames, remaining_frames)
        end_frame_by_shot == FrameAt(shot.end_sec, fps)
    IN  [start_frame |-> start_frame,
         end_frame |-> Min2(Min2(end_frame_by_secs, end_frame_by_shot),
                            a.video.total_frames - 1)]

\* lines 109-113: the return value (fps, written)
SvReturn(v, fps) == [v EXCEPT !.result = <<[fps |-> fps, written |-> v.written]>>]

-----------------------------------------------------------------------------
(* The calls: the inputs each function is invoked with *)

\* most segments passed to make_summary_with_audio
MaxSegments == 3

DistValues == {0, 1, 2}

DistSeries == SeqsUpTo(DistValues, MaxLen)

\* non-negative, non-decreasing sample times: evenly spaced from t0
TimeGrids == {[t0 |-> 0, step |-> 0], [t0 |-> 0, step |-> 1],
              [t0 |-> 1, step |-> 1], [t0 |-> 1, step |-> 2]}

\* the first m sample times of the grid g
TimesOn(g, m) == [i \in 1..m |-> g.t0 + (i - 1) * g.step]

ParamChoices ==
    { DefaultParams,
      [smooth_win |-> 1, threshold_percentile |-> 500, min_shot_len_sec |-> 0,
       min_gap_sec |-> 0, min_shot_duration_sec |-> 1],
      [smooth_win |-> 1, threshold_percentile |-> 900, min_shot_len_sec |-> 1,
       min_gap_sec |-> 2, min_shot_duration_sec |-> 2],
      [smooth_win |-> 3, threshold_percentile |-> 500, min_shot_len_sec |-> 2,
       min_gap_sec |-> 1, min_shot_duration_sec |-> 3] }

DurationChoices == {<<>>, <<0>>, <<6>>}

\* sample times and video duration of a call: the unit grid from 0 with every
\* duration, the grid of step 2 with the duration 6, equal times with that
\* duration and without one
TimingChoices ==
    {tc \in [grid : TimeGrids, duration : DurationChoices] :
        \/ tc.grid = [t0 |-> 0, step |-> 1]
        \/ tc.grid.step = 2 /\ tc.duration = <<6>>
        \/ tc.grid.step = 0 /\ tc.duration # <<0>>}

PercentileChoices == {-100, 0, 500, 725, 900, 999, 1000, 2000}

QualityChoices == {[sharpness |-> 0, level |-> 0], [sharpness |-> 2000, level |-> 100]}

WeightChoices == {[w_sharpness |-> DefaultWSharpness, w_motion |-> DefaultWMotion],
                  [w_sharpness |-> 0, w_motion |-> 10]}

\* sampled frames are further apart than the float32 resolution (2 ticks)
FrameTimeSets ==
    {T \in SUBSET (0..MaxTime) :
       /\ Cardinality(T) <= MaxFrames
       /\ \A t1, t2 \in T : t1 < t2 => t2 - t1 >= 3}

\* sampled frames: increasing time stamps, at most MaxFrames frames
FrameLists ==
    UNION { { [k \in 1..Cardinality(T) |->
                 [timestamp_sec |-> SetToSorted(T)[k],
                  sharpness |-> qual[k].sharpness, level |-> qual[k].level]]
              : qual \in [1..Cardinality(T) -> QualityChoices] }
            : T \in FrameTimeSets }

Intervals ==
    {iv \in [start_sec : 0..MaxTime, end_sec : 0..MaxTime] : iv.start_sec < iv.end_sec}

\* no shot, one shot, or two adjoining shots from 0
ShotLists ==
    {<<>>} \cup {<<iv>> : iv \in Intervals}
           \cup {<<[start_sec |-> 0, end_sec |-> iv.start_sec], iv>> :
                   iv \in {i \in Intervals : i.start_sec > 0}}

\* segment durations are float32 values, as the defaults 2.5 and 3.0 are
SegmentChoices == {2, 4}

\* histograms: non-empty vectors of bin values, float32 values (0, 2) or not
\* (1)
Vectors == SeqsUpTo({0, 1, 2}, MaxVecLen) \ {<<>>}

EdgeVectors == {[k \in 1..n |-> 2] : n \in 1..MaxVecLen}

\* the colour histograms of the combined_distance calls: float32 bin values
HsvVectors == {v \in Vectors : \A k \in DOMAIN v : v[k] # 1}

\* no call of make_summary_with_audio
NoAvCall == [segments |-> <<>>, cleanup_temp |-> TRUE, input_exists |-> FALSE,
             ffmpeg_found |-> FALSE]

\* no call of make_summary_video
NoSvCall == [secs_per_shot |-> 15, max_duration |-> 0, video |-> NoVideo]

Blank ==
    [entry |-> "none", dist_times |-> <<>>, distances |-> <<>>, params |-> DefaultParams,
     video_duration_sec |-> <<>>, smoothed |-> <<>>, smooth_den |-> 1,
     candidates |-> <<>>, min_gap |-> 0, boundaries_sec |-> <<>>, shots |-> <<>>,
     sampled_frames |-> <<>>, segment_duration |-> 0,
     weights |-> [w_sharpness |-> DefaultWSharpness, w_motion |-> DefaultWMotion],
     vec_p |-> <<>>, vec_q |-> <<>>, edge_p |-> <<>>, edge_q |-> <<>>,
     call_kwargs |-> <<>>, thr |-> NaN, av_args |-> NoAvCall,
     sv_args |-> NoSvCall]

\* the state in which the caller invokes c.entry with the inputs of c
InitWith(c) ==
    /\ entry = c.entry
    /\ pc = c.entry
    /\ error = "none"
    /\ stages = <<>>
    /\ dist_times = c.dist_times
    /\ distances = c.distances
    /\ params = c.params
    /\ video_duration_sec = c.video_duration_sec
    /\ smoothed = c.smoothed
    /\ smooth_den = c.smooth_den
    /\ thr = c.thr
    /\ candidates = c.candidates
    /\ min_gap = c.min_gap
    /\ peaks = <<>>
    /\ boundaries_sec = c.boundaries_sec
    /\ boundary_times = c.boundaries_sec
    /\ shots = c.shots
    /\ sampled_frames = c.sampled_frames
    /\ segment_duration = c.segment_duration
    /\ weights = c.weights
    /\ keyframes = <<>>
    /\ highlights = <<>>
    /\ vec_p = c.vec_p
    /\ vec_q = c.vec_q
    /\ edge_p = c.edge_p
    /\ edge_q = c.edge_q
    /\ dist = <<>>
    /\ call_kwargs = c.call_kwargs
    /\ arguments = <<>>
    /\ av_args = c.av_args
    /\ av = AvStart
    /\ sv_args = c.sv_args
    /\ sv = SvStart

\* equal lengths with every choice of parameters and timing, and one time
\* stamp too few or too many
InitDetect ==
    \E d \in DistSeries :
        \/ \E pr \in ParamChoices, tc \in TimingChoices :
              InitWith([Blank EXCEPT !.entry = "detect_shot_boundaries",
                                     !.distances = d,
                                     !.dist_times = TimesOn(tc.grid, Len(d)),
                                     !.params = pr,
                                     !.video_duration_sec = tc.duration])
        \/ \E m \in {Max2(0, Len(d) - 1), Len(d) + 1} :
              InitWith([Blank EXCEPT !.entry = "detect_shot_boundaries",
                                     !.distances = d,
                                     !.dist_times = TimesOn([t0 |-> 0, step |-> 1], m)])

\* Scenario A: two isolated peaks of 10 in a series of ten samples at unit
\* spacing, percentile 90 and no smoothing, the other parameters at their
\* defaults
ScenarioA ==
    [distances |-> <<0, 0, 0, 10, 0, 0, 0, 10, 0, 0>>,
     params |-> [DefaultParams EXCEPT !.smooth_win = 1, !.threshold_percentile = 900]]

\* Scenario A with the sample times from 0 or from 1, with and without the
\* video duration
InitScenarioA ==
    \E t0 \in {0, 1}, withDuration \in BOOLEAN :
        InitWith([Blank EXCEPT
                    !.entry = "detect_shot_boundaries",
                    !.distances = ScenarioA.distances,
                    !.dist_times = [i \in 1..Len(ScenarioA.distances) |-> t0 + i - 1],
                    !.params = ScenarioA.params,
                    !.video_duration_sec =
                        IF withDuration THEN <<t0 + Len(ScenarioA.distances)>>
                        ELSE <<>>])

InitMovingAverage ==
    \E d \in DistSeries, w \in 0..(MaxLen + 1) :
        InitWith([Blank EXCEPT !.entry = "moving_average", !.distances = d,
                               !.params = [DefaultParams EXCEPT !.smooth_win = w]])

InitAutoThreshold ==
    \E d \in DistSeries, pct \in PercentileChoices :
        InitWith([Blank EXCEPT !.entry = "auto_threshold", !.smoothed = d,
                               !.params = [DefaultParams EXCEPT
                                             !.threshold_percentile = pct]])

\* thresholds: not a number, or a multiple of one half
ThresholdChoices == {NaN} \cup {[nan |-> FALSE, num |-> h, den |-> 2] : h \in 0..5}

InitFindLocalMaxima ==
    \E x \in DistSeries, t \in ThresholdChoices :
        InitWith([Blank EXCEPT !.entry = "find_local_maxima", !.smoothed = x,
                               !.thr = t])

\* candidate lists over the indices of n scores, in any order: without
\* repetition, or one index twice
CandidateLists(n) ==
    {idx \in SeqsUpTo(0..(n - 1), MaxList) :
        \A a, b \in DOMAIN idx : a # b => idx[a] # idx[b]}
    \cup {<<i, i>> : i \in 0..(n - 1)}

InitNms ==
    \E sc \in SeqsUpTo(DistValues, MaxList), g \in 0..MaxList :
      \E idx \in CandidateLists(Len(sc)) :
        InitWith([Blank EXCEPT !.entry = "non_max_suppression", !.smoothed = sc,
                               !.candidates = idx, !.min_gap = g])

InitMerge ==
    \E b \in SeqsUpTo(0..MaxTime, MaxList), g \in {-1, 0, 1, 2, MaxTime} :
        InitWith([Blank EXCEPT !.entry = "merge_close_boundaries",
                               !.boundaries_sec = b,
                               !.params = [DefaultParams EXCEPT !.min_gap_sec = g]])

\* Scenario C in tenths of a second: shots of 1.0 s and 0.3 s,
\* min_shot_duration_sec = 2.0
ScenarioC == [boundaries_sec |-> <<0, 10>>, video_duration_sec |-> 13,
              min_shot_duration_sec |-> 20]

FilterCalls(b, dur, md) ==
    InitWith([Blank EXCEPT !.entry = "filter_short_shots", !.boundaries_sec = b,
                           !.video_duration_sec = <<dur>>,
                           !.params = [DefaultParams EXCEPT
                                         !.min_shot_duration_sec = md]])

InitFilter ==
    \/ \E b \in SeqsUpTo(0..MaxTime, MaxList), dur \in {0, MaxTime - 1, MaxTime},
          md \in {0, 2, 3} :
           FilterCalls(b, dur, md)
    \/ FilterCalls(ScenarioC.boundaries_sec, ScenarioC.video_duration_sec,
                   ScenarioC.min_shot_duration_sec)

InitBuildShots ==
    \E b \in SeqsUpTo(0..MaxTime, MaxList), dur \in {1, MaxTime - 1, MaxTime} :
        InitWith([Blank EXCEPT !.entry = "build_shots", !.boundaries_sec = b,
                               !.video_duration_sec = <<dur>>])

InitKeyframes ==
    \E sh \in ShotLists, fr \in FrameLists :
        InitWith([Blank EXCEPT !.entry = "pick_keyframes_middle", !.shots = sh,
                               !.sampled_frames = fr])

\* image qualities for the best-keyframe scoring: Laplacian variances below
\* and above the cap, grey levels whose differences are below the motion cap
BestQualityChoices ==
    {[sharpness |-> 100, level |-> 0], [sharpness |-> 100, level |-> 10],
     [sharpness |-> 200, level |-> 40], [sharpness |-> 2000, level |-> 40]}

BestFrameLists ==
    UNION { { [k \in 1..Cardinality(T) |->
                 [timestamp_sec |-> SetToSorted(T)[k],
                  sharpness |-> qual[k].sharpness, level |-> qual[k].level]]
              : qual \in [1..Cardinality(T) -> BestQualityChoices] }
            : T \in FrameTimeSets }

\* no shot, one shot (also one that spans every frame time), or two
\* adjoining shots
BestShotLists ==
    {sh \in ShotLists : Len(sh) <= 1}
    \cup {<<[start_sec |-> 0, end_sec |-> MaxTime + 1]>>,
          <<[start_sec |-> 0, end_sec |-> 3], [start_sec |-> 3, end_sec |-> MaxTime]>>}

InitBest ==
    \E sh \in BestShotLists, fr \in BestFrameLists, w \in WeightChoices :
        InitWith([Blank EXCEPT !.entry = "pick_keyframes_best", !.shots = sh,
                               !.sampled_frames = fr, !.weights = w])

\* the caller weighs sharpness only
SharpnessOnly == [w_sharpness |-> 10, w_motion |-> 0]

\* every choice of shots, frames, segment duration and weights, and one shot
\* over the whole time range scored by sharpness only
InitHighlights ==
    \/ \E sh \in ShotLists, fr \in FrameLists, seg \in SegmentChoices,
          w \in WeightChoices :
           InitWith([Blank EXCEPT !.entry = "select_highlight_segments", !.shots = sh,
                                  !.sampled_frames = fr, !.segment_duration = seg,
                                  !.weights = w])
    \/ \E fr \in FrameLists :
           InitWith([Blank EXCEPT !.entry = "select_highlight_segments",
                                  !.shots = <<[start_sec |-> 0, end_sec |-> MaxTime]>>,
                                  !.sampled_frames = fr, !.segment_duration = 2,
                                  !.weights = SharpnessOnly])

InitChiSquare ==
    \E vp \in Vectors, vq \in Vectors :
        InitWith([Blank EXCEPT !.entry = "chi_square_distance", !.vec_p = vp,
                               !.vec_q = vq])

InitCombined ==
    \E vp \in HsvVectors, vq \in HsvVectors, ep \in EdgeVectors, eq \in EdgeVectors :
        InitWith([Blank EXCEPT !.entry = "combined_distance", !.vec_p = vp,
                               !.vec_q = vq, !.edge_p = ep, !.edge_q = eq])

\* the keywords the callers of summarize pass besides the two paths
\* (summarize.py:268-275, app.py:93-104), with the values passed
CallerKeywords ==
    [fps_sample |-> 80, threshold_percentile |-> 900, min_shot_duration |-> 20,
     secs_per_shot |-> 30, max_summary_duration |-> 600, keep_audio |-> FALSE,
     clean_input |-> FALSE, best_keyframes |-> TRUE]

InitSummarize ==
    \E kw \in SUBSET (DOMAIN CallerKeywords) :
        InitWith([Blank EXCEPT
                    !.entry = "summarize",
                    !.call_kwargs =
                        [n \in SummarizeRequired \cup kw |->
                           IF n = "input_path" THEN "input.mp4"
                           ELSE IF n = "output_dir" THEN "outputs"
                           ELSE CallerKeywords[n]]])

\* n segments of one tick each, a tick apart
SegmentsOfLen(n) == [k \in 1..n |-> [start_sec |-> 2 * (k - 1), end_sec |-> 2 * k - 1]]

InitMakeSummaryWithAudio ==
    \E n \in 0..MaxSegments, cleanup, exists, found \in BOOLEAN :
        InitWith([Blank EXCEPT !.entry = "make_summary_with_audio",
                               !.av_args = [segments |-> SegmentsOfLen(n),
                                            cleanup_temp |-> cleanup,
                                            input_exists |-> exists,
                                            ffmpeg_found |-> found]])

\* the shot lists passed to make_summary_video
SvShotLists ==
    {<<>>,
     <<[start_sec |-> 0, end_sec |-> 2]>>,
     <<[start_sec |-> 0, end_sec |-> 2], [start_sec |-> 2, end_sec |-> MaxTime - 1]>>,
     <<[start_sec |-> 0, end_sec |-> 1], [start_sec |-> 1, end_sec |-> 3],
       [start_sec |-> 3, end_sec |-> MaxTime]>>}

\* videos of MaxTime seconds at 1 or 2 frames per second, one that delivers
\* fewer frames than its frame count says, one for which no writer opens,
\* one without a frame rate and one that does not open
VideoChoices ==
    {[opened |-> TRUE, fps |-> f, total_frames |-> f * MaxTime + 1,
      readable |-> f * MaxTime + 1, writer_opens |-> TRUE] : f \in {1, 2}}
    \cup {[opened |-> TRUE, fps |-> 1, total_frames |-> MaxTime + 1, readable |-> 3,
            writer_opens |-> TRUE],
           [opened |-> TRUE, fps |-> 1, total_frames |-> MaxTime + 1,
            readable |-> MaxTime + 1, writer_opens |-> FALSE],
           [opened |-> TRUE, fps |-> 0, total_frames |-> MaxTime + 1,
            readable |-> MaxTime + 1, writer_opens |-> TRUE],
           NoVideo}

\* secs_per_shot and max_duration, in tenths
SecsPerShotChoices == {5, 15, 25}

MaxDurationChoices == {0, 5, 15, 25, 40}

InitMakeSummaryVideo ==
    \E sh \in SvShotLists, v \in VideoChoices, secs \in SecsPerShotChoices,
       md \in MaxDurationChoices :
        InitWith([Blank EXCEPT !.entry = "make_summary_video", !.shots = sh,
                               !.sv_args = [secs_per_shot |-> secs, max_duration |-> md,
                                            video |-> v]])

Init ==
    \/ InitMakeSummaryVideo
    \/ InitMakeSummaryWithAudio
    \/ InitSummarize
    \/ InitDetect
    \/ InitScenarioA
    \/ InitMovingAverage
    \/ InitAutoThreshold
    \/ InitFindLocalMaxima
    \/ InitNms
    \/ InitMerge
    \/ InitFilter
    \/ InitBuildShots
    \/ InitKeyframes
    \/ InitBest
    \/ InitHighlights
    \/ InitChiSquare
    \/ InitCombined

-----------------------------------------------------------------------------
(* The functions as actions *)

\* the state of the functions that write the summary video
mediaVars == <<av, sv>>

inputVars == <<entry, dist_times, distances, params, video_duration_sec, boundaries_sec,
               sampled_frames, segment_duration, weights, vec_p, vec_q, edge_p, edge_q,
               call_kwargs, av_args, sv_args>>

\* where control goes after function f: back to the caller when f is the
\* function invoked, else on to the next statement of detect_shot_boundaries
After(f, next) == IF entry = f THEN "done" ELSE next

\* faulty variant: only a short dist_times is rejected
LengthMismatchShorter(times, dists) == Len(times) < Len(dists)

\* the check of detect_shot_boundaries' first statement
LengthMismatch(times, dists) == Len(times) # Len(dists)

\* detect_shot_boundaries, lines 143-144
DetectCheckLengths ==
    /\ pc = "detect_shot_boundaries"
    /\ IF LengthMismatch(dist_times, distances)
       THEN pc' = "raised" /\ error' = "ValueError"
       ELSE pc' = "moving_average" /\ error' = error
    /\ UNCHANGED <<inputVars, mediaVars, arguments, stages, smoothed, smooth_den, thr, candidates, min_gap,
                   peaks, boundary_times, shots, keyframes, highlights, dist>>

MovingAverage ==
    /\ pc = "moving_average"
    /\ stages' = Append(stages, "moving_average")
    /\ LET r == moving_average(distances, params.smooth_win)
       IN  IF r.error # "none"
           THEN /\ pc' = "raised"
                /\ error' = r.error
                /\ UNCHANGED <<smoothed, smooth_den>>
           ELSE /\ pc' = After("moving_average", "auto_threshold")
                /\ error' = error
                /\ smoothed' = r.series
                /\ smooth_den' = r.den
    /\ UNCHANGED <<inputVars, mediaVars, arguments, thr, candidates, min_gap, peaks, boundary_times, shots,
                   keyframes, highlights, dist>>

\* np.percentile of an empty series returns nan or raises IndexError,
\* depending on the numpy release
EmptyPercentileOutcomes == {"nan", "IndexError"}

AutoThreshold ==
    /\ pc = "auto_threshold"
    /\ stages' = Append(stages, "auto_threshold")
    /\ IF smoothed = <<>>
       THEN \E outcome \in EmptyPercentileOutcomes :
                IF outcome = "nan"
                THEN /\ thr' = NaN
                     /\ error' = error
                     /\ pc' = After("auto_threshold", "find_local_maxima")
                ELSE /\ thr' = thr
                     /\ error' = outcome
                     /\ pc' = "raised"
       ELSE /\ thr' = auto_threshold(smoothed, smooth_den, params.threshold_percentile)
            /\ error' = error
            /\ pc' = After("auto_threshold", "find_local_maxima")
    /\ UNCHANGED <<inputVars, mediaVars, arguments, smoothed, smooth_den, candidates, min_gap, peaks,
                   boundary_times, shots, keyframes, highlights, dist>>

FindLocalMaxima ==
    /\ pc = "find_local_maxima"
    /\ stages' = Append(stages, "find_local_maxima")
    /\ candidates' = find_local_maxima(smoothed, smooth_den, thr)
    /\ pc' = After("find_local_maxima", "min_gap")
    /\ UNCHANGED <<inputVars, mediaVars, arguments, error, smoothed, smooth_den, thr, min_gap, peaks,
                   boundary_times, shots, keyframes, highlights, dist>>

\* detect_shot_boundaries, lines 152-153
DetectMinGap ==
    /\ pc = "min_gap"
    /\ min_gap' = MinGapSamples(dist_times, params.min_shot_len_sec)
    /\ pc' = "non_max_suppression"
    /\ UNCHANGED <<inputVars, mediaVars, arguments, error, stages, smoothed, smooth_den, thr, candidates,
                   peaks, boundary_times, shots, keyframes, highlights, dist>>

NonMaxSuppression ==
    /\ pc = "non_max_suppression"
    /\ stages' = Append(stages, "non_max_suppression")
    /\ peaks' = non_max_suppression(candidates, smoothed, min_gap)
    /\ pc' = After("non_max_suppression", "collect")
    /\ UNCHANGED <<inputVars, mediaVars, arguments, error, smoothed, smooth_den, thr, candidates, min_gap,
                   boundary_times, shots, keyframes, highlights, dist>>

\* detect_shot_boundaries, lines 157-158: dist_times[i] raises IndexError
\* for a peak index past the end of dist_times
DetectCollectBoundaries ==
    /\ pc = "collect"
    /\ IF \E k \in DOMAIN peaks : peaks[k] >= Len(dist_times)
       THEN /\ pc' = "raised"
            /\ error' = "IndexError"
            /\ UNCHANGED boundary_times
       ELSE /\ pc' = "merge_close_boundaries"
            /\ error' = error
            /\ boundary_times' = CollectBoundaries(dist_times, peaks)
    /\ UNCHANGED <<inputVars, mediaVars, arguments, stages, smoothed, smooth_den, thr, candidates, min_gap,
                   peaks, shots, keyframes, highlights, dist>>

\* detect_shot_boundaries, line 164
FilterWanted == video_duration_sec # <<>> /\ video_duration_sec[1] > 0

MergeCloseBoundaries ==
    /\ pc = "merge_close_boundaries"
    /\ stages' = Append(stages, "merge_close_boundaries")
    /\ boundary_times' = merge_close_boundaries(boundary_times, params.min_gap_sec)
    /\ pc' = After("merge_close_boundaries",
                   IF FilterWanted THEN "filter_short_shots" ELSE "done")
    /\ UNCHANGED <<inputVars, mediaVars, arguments, error, smoothed, smooth_den, thr, candidates, min_gap,
                   peaks, shots, keyframes, highlights, dist>>

FilterShortShots ==
    /\ pc = "filter_short_shots"
    /\ stages' = Append(stages, "filter_short_shots")
    /\ boundary_times' = filter_short_shots(boundary_times, video_duration_sec[1],
                                            params.min_shot_duration_sec)
    /\ pc' = "done"
    /\ UNCHANGED <<inputVars, mediaVars, arguments, error, smoothed, smooth_den, thr, candidates, min_gap,
                   peaks, shots, keyframes, highlights, dist>>

BuildShots ==
    /\ pc = "build_shots"
    /\ stages' = Append(stages, "build_shots")
    /\ shots' = build_shots(boundary_times, video_duration_sec[1])
    /\ pc' = "done"
    /\ UNCHANGED <<inputVars, mediaVars, arguments, error, smoothed, smooth_den, thr, candidates, min_gap,
                   peaks, boundary_times, keyframes, highlights, dist>>

PickKeyframesMiddle ==
    /\ pc = "pick_keyframes_middle"
    /\ stages' = Append(stages, "pick_keyframes_middle")
    /\ LET r == pick_keyframes_middle(shots, sampled_frames)
       IN  /\ keyframes' = r.frames
           /\ error' = r.error
           /\ pc' = IF r.error = "none" THEN "done" ELSE "raised"
    /\ UNCHANGED <<inputVars, mediaVars, arguments, smoothed, smooth_den, thr, candidates, min_gap, peaks,
                   boundary_times, shots, highlights, dist>>

PickKeyframesBest ==
    /\ pc = "pick_keyframes_best"
    /\ stages' = Append(stages, "pick_keyframes_best")
    /\ LET r == pick_keyframes_best(shots, sampled_frames, weights.w_sharpness,
                                    weights.w_motion)
       IN  /\ keyframes' = r.keyframes
           /\ error' = r.error
           /\ pc' = IF r.error = "none" THEN "done" ELSE "raised"
    /\ UNCHANGED <<inputVars, mediaVars, arguments, smoothed, smooth_den, thr, candidates, min_gap, peaks,
                   boundary_times, shots, highlights, dist>>

SelectHighlightSegments ==
    /\ pc = "select_highlight_segments"
    /\ stages' = Append(stages, "select_highlight_segments")
    /\ highlights' = select_highlight_segments(shots, sampled_frames, segment_duration,
                                               weights.w_sharpness, weights.w_motion)
    /\ pc' = "done"
    /\ UNCHANGED <<inputVars, mediaVars, arguments, error, smoothed, smooth_den, thr, candidates, min_gap,
                   peaks, boundary_times, shots, keyframes, dist>>

ChiSquareDistance ==
    /\ pc = "chi_square_distance"
    /\ stages' = Append(stages, "chi_square_distance")
    /\ LET r == chi_square_distance(vec_p, vec_q, 10)
       IN  /\ dist' = r.terms
           /\ error' = r.error
           /\ pc' = IF r.error = "none" THEN "done" ELSE "raised"
    /\ UNCHANGED <<inputVars, mediaVars, arguments, smoothed, smooth_den, thr, candidates, min_gap, peaks,
                   boundary_times, shots, keyframes, highlights>>

CombinedDistance ==
    /\ pc = "combined_distance"
    /\ stages' = Append(stages, "combined_distance")
    /\ LET r == combined_distance(vec_p, vec_q, edge_p, edge_q)
       IN  /\ dist' = r.terms
           /\ error' = r.error
           /\ pc' = IF r.error = "none" THEN "done" ELSE "raised"
    /\ UNCHANGED <<inputVars, mediaVars, arguments, smoothed, smooth_den, thr, candidates, min_gap, peaks,
                   boundary_times, shots, keyframes, highlights>>

\* summarize, lines 70-77: the call binds its arguments; the body works on
\* the video file through the functions above
Summarize ==
    /\ pc = "summarize"
    /\ stages' = Append(stages, "summarize")
    /\ LET r == BindSummarize(call_kwargs)
       IN  /\ arguments' = r.arguments
           /\ error' = r.error
           /\ pc' = IF r.error = "none" THEN "done" ELSE "raised"
    /\ UNCHANGED <<inputVars, mediaVars, smoothed, smooth_den, thr, candidates, min_gap,
                   peaks, boundary_times, shots, keyframes, highlights, dist>>

pipelineVars == <<smoothed, smooth_den, thr, candidates, min_gap, peaks,
                  boundary_times, shots, keyframes, highlights, dist>>

\* make_summary_video, lines 41-54
MakeSummaryVideo ==
    /\ pc = "make_summary_video"
    /\ stages' = Append(stages, "make_summary_video")
    /\ IF ~sv_args.video.opened \/ sv_args.video.fps <= 0
       THEN pc' = "raised" /\ error' = "RuntimeError"
       ELSE pc' = "next_shot" /\ error' = error
    /\ UNCHANGED <<inputVars, arguments, pipelineVars, av, sv>>

\* lines 73-93: the head of the loop over shots up to cap.set, and, when the
\* loop ends, lines 109-113
SvNextShot ==
    /\ pc = "next_shot"
    /\ LET limit == max_frames(sv_args.max_duration, sv_args.video.fps)
       IN  IF sv.shot_idx >= Len(shots) \/ LimitReached(sv.written, limit)
           THEN /\ sv' = SvReturn(sv, sv_args.video.fps)
                /\ pc' = "done"
           ELSE LET r == ShotFrameRange(shots[sv.shot_idx + 1], sv.written, sv_args)
                IN  IF r.end_frame <= r.start_frame
                    THEN /\ sv' = [sv EXCEPT !.shot_idx = @ + 1]
                         /\ pc' = "next_shot"
                    ELSE /\ sv' = [sv EXCEPT
                                     !.pos = r.start_frame,
                                     !.remaining = r.end_frame - r.start_frame,
                                     !.seeks = Append(@, [shot |-> sv.shot_idx,
                                                          written |-> sv.written])]
                         /\ pc' = "copy_frame"
    /\ UNCHANGED <<inputVars, arguments, error, stages, pipelineVars, av>>

\* lines 95-107: one iteration of the loop over the frames of a shot;
\* cap.read() delivers a frame while the position is below the number of
\* readable frames
SvCopyFrame ==
    /\ pc = "copy_frame"
    /\ LET limit == max_frames(sv_args.max_duration, sv_args.video.fps)
           ret == sv.pos < sv_args.video.readable
           read == [sv EXCEPT !.pos = IF ret THEN @ + 1 ELSE @,
                              !.reads = Append(@, [shot |-> sv.shot_idx,
                                                   written |-> sv.written])]
       IN  IF LimitReached(sv.written, limit)
           THEN /\ sv' = [sv EXCEPT !.shot_idx = @ + 1, !.remaining = 0]
                /\ pc' = "next_shot"
                /\ error' = error
           ELSE IF ~ret
           THEN /\ sv' = [read EXCEPT !.shot_idx = @ + 1, !.remaining = 0]
                /\ pc' = "next_shot"
                /\ error' = error
           ELSE IF sv.writer = "none" /\ ~sv_args.video.writer_opens
           THEN /\ sv' = read
                /\ pc' = "raised"
                /\ error' = "RuntimeError"
           ELSE /\ sv' = [read EXCEPT
                            !.writer = "open",
                            !.writes = Append(@, [shot |-> sv.shot_idx,
                                                  written |-> sv.written]),
                            !.written = @ + 1,
                            !.remaining = @ - 1,
                            !.shot_idx = IF sv.remaining = 1 THEN @ + 1 ELSE @]
                /\ pc' = IF sv.remaining = 1 THEN "next_shot" ELSE "copy_frame"
                /\ error' = error
    /\ UNCHANGED <<inputVars, arguments, stages, pipelineVars, av>>

\* make_summary_with_audio, lines 232-248: the early returns, then the first
\* segment
MakeSummaryWithAudio ==
    /\ pc = "make_summary_with_audio"
    /\ stages' = Append(stages, "make_summary_with_audio")
    /\ IF av_args.segments = <<>>
       THEN /\ av' = [av EXCEPT !.result = <<[success |-> FALSE,
                                             message |-> "No segments provided",
                                             segments |-> 0, failed |-> <<>>]>>]
            /\ pc' = "done"
       ELSE IF ~av_args.input_exists
       THEN /\ av' = [av EXCEPT !.result = <<[success |-> FALSE,
                                             message |-> "Input video not found",
                                             segments |-> 0, failed |-> <<>>]>>]
            /\ pc' = "done"
       ELSE /\ av' = av
            /\ pc' = "cut_stream_copy"
    /\ UNCHANGED <<inputVars, arguments, error, pipelineVars, sv>>

\* lines 250-254 and 261-262: cut_segment(..., stream_copy=True); without
\* ffmpeg _check_ffmpeg raises RuntimeError (line 84), which leaves the
\* function through the finally block
CutStreamCopy ==
    /\ pc = "cut_stream_copy"
    /\ IF ~av_args.ffmpeg_found
       THEN /\ av' = Cleanup(av, av_args.cleanup_temp)
            /\ error' = "RuntimeError"
            /\ pc' = "raised"
       ELSE \E ok \in BOOLEAN :
              LET ran == [av EXCEPT !.runs = Append(@, CutRun(av.i, TRUE, ok))]
              IN  /\ error' = error
                  /\ IF ok
                     THEN /\ av' = [RecordCut(ran, TRUE) EXCEPT !.i = @ + 1]
                          /\ pc' = AfterSegment(av.i, av_args.segments)
                     ELSE /\ av' = ran
                          /\ pc' = "cut_reencode"
    /\ UNCHANGED <<inputVars, arguments, stages, pipelineVars, sv>>

\* lines 256-265: cut_segment(..., stream_copy=False)
CutReencode ==
    /\ pc = "cut_reencode"
    /\ \E ok \in BOOLEAN :
          LET ran == [av EXCEPT !.runs = Append(@, CutRun(av.i, FALSE, ok))]
          IN  /\ av' = [RecordCut(ran, ok) EXCEPT !.i = @ + 1]
              /\ pc' = AfterSegment(av.i, av_args.segments)
    /\ UNCHANGED <<inputVars, arguments, error, stages, pipelineVars, sv>>

\* lines 267-271, 278-285: the return when no segment was cut, else
\* concat_segments(..., stream_copy=True)
ConcatStreamCopy ==
    /\ pc = "concat_stream_copy"
    /\ IF av.segment_paths = <<>>
       THEN /\ av' = AvReturn(av, FALSE, "All segment cuts failed", av_args.cleanup_temp)
            /\ pc' = "done"
       ELSE \E ok \in BOOLEAN :
              LET ran == [av EXCEPT
                            !.runs = Append(@, ConcatRun(av.segment_paths, TRUE, ok))]
              IN  IF ok
                  THEN /\ av' = AvReturn(ran, TRUE, "Created summary",
                                         av_args.cleanup_temp)
                       /\ pc' = "done"
                  ELSE /\ av' = ran
                       /\ pc' = "concat_reencode"
    /\ UNCHANGED <<inputVars, arguments, error, stages, pipelineVars, sv>>

\* lines 273-285: concat_segments(..., stream_copy=False) and the return
ConcatReencode ==
    /\ pc = "concat_reencode"
    /\ \E ok \in BOOLEAN :
          LET ran == [av EXCEPT
                        !.runs = Append(@, ConcatRun(av.segment_paths, FALSE, ok))]
          IN  av' = IF ok
                    THEN AvReturn(ran, TRUE, "Created summary", av_args.cleanup_temp)
                    ELSE AvReturn(ran, FALSE, "Concatenation failed",
                                  av_args.cleanup_temp)
    /\ pc' = "done"
    /\ UNCHANGED <<inputVars, arguments, error, stages, pipelineVars, sv>>

Next ==
    \/ MakeSummaryVideo
    \/ SvNextShot
    \/ SvCopyFrame
    \/ MakeSummaryWithAudio
    \/ CutStreamCopy
    \/ CutReencode
    \/ ConcatStreamCopy
    \/ ConcatReencode
    \/ Summarize
    \/ DetectCheckLengths
    \/ MovingAverage
    \/ AutoThreshold
    \/ FindLocalMaxima
    \/ DetectMinGap
    \/ NonMaxSuppression
    \/ DetectCollectBoundaries
    \/ MergeCloseBoundaries
    \/ FilterShortShots
    \/ BuildShots
    \/ PickKeyframesMiddle
    \/ PickKeyframesBest
    \/ SelectHighlightSegments
    \/ ChiSquareDistance
    \/ CombinedDistance

Spec == Init /\ [][Next]_vars

-----------------------------------------------------------------------------
(* Properties *)

Ran(f) == \E k \in DOMAIN stages : stages[k] = f

LastRan(f) == stages # <<>> /\ stages[Len(stages)] = f

\* C1: for every valid input (equal lengths, non-negative non-decreasing
\* times, any parameters, with or without a video duration) the boundary list
\* detect_shot_boundaries returns is strictly ascending and starts with 0.0
C1_BoundariesAscendingFromZero ==
    (entry = "detect_shot_boundaries" /\ pc = "done") =>
        /\ Len(boundary_times) >= 1
        /\ boundary_times[1] = 0
        /\ StrictlyAscending(boundary_times)

\* a call that returned three boundaries or more after the short-shot filter
C1_Witness ==
    /\ entry = "detect_shot_boundaries"
    /\ pc = "done"
    /\ Ran("filter_short_shots")
    /\ Len(boundary_times) >= 3

\* a sorted, de-duplicated boundary list that begins at 0.0
BoundaryListOk(b) == Len(b) >= 1 /\ b[1] = 0 /\ StrictlyAscending(b)

\* the shots tile [0, duration]
Tiles(sh, duration) ==
    /\ Len(sh) >= 1
    /\ sh[1].start_sec = 0
    /\ \A k \in 1..(Len(sh) - 1) : sh[k].end_sec = sh[k + 1].start_sec
    /\ sh[Len(sh)].end_sec = duration
    /\ \A k \in DOMAIN sh : sh[k].end_sec > sh[k].start_sec

\* C2 as stated: for any sorted, de-duplicated boundary list beginning at 0.0
\* and any video_duration > 0 the shots of build_shots tile [0, video_duration]
C2_Original ==
    (entry = "build_shots" /\ pc = "done" /\ BoundaryListOk(boundaries_sec)
       /\ video_duration_sec[1] > 0)
    => Tiles(shots, video_duration_sec[1])

\* C2 (amended): for any sorted, de-duplicated boundary list beginning at 0.0
\* whose boundaries are all at most video_duration, and video_duration > 0,
\* the shots of build_shots tile [0, video_duration]
C2_ShotsTileVideo ==
    (entry = "build_shots" /\ pc = "done" /\ BoundaryListOk(boundaries_sec)
       /\ video_duration_sec[1] > 0
       /\ boundaries_sec[Len(boundaries_sec)] <= video_duration_sec[1])
    => Tiles(shots, video_duration_sec[1])

\* three boundaries inside the video, three shots built
C2_Witness ==
    /\ entry = "build_shots"
    /\ pc = "done"
    /\ BoundaryListOk(boundaries_sec)
    /\ boundaries_sec[Len(boundaries_sec)] < video_duration_sec[1]
    /\ Len(shots) = 3

\* C3: for any candidate list, scores and min_gap >= 0, no two indices
\* returned by non_max_suppression are within min_gap samples of each other,
\* and the result is sorted ascending
C3_SuppressedPeaksApart ==
    (Ran("non_max_suppression") /\ min_gap >= 0) =>
        /\ \A a, b \in DOMAIN peaks :
              a # b => Abs(peaks[a] - peaks[b]) > min_gap
        /\ \A a \in 1..(Len(peaks) - 1) : peaks[a] <= peaks[a + 1]

\* a direct call that kept two peaks and suppressed a third candidate
C3_Witness ==
    /\ entry = "non_max_suppression"
    /\ pc = "done"
    /\ min_gap >= 1
    /\ Len(peaks) >= 2
    /\ Cardinality(Range(candidates)) > Len(peaks)

\* C4: for any boundary list and any min_gap_sec, adjacent boundaries in the
\* output of merge_close_boundaries are at least min_gap_sec apart
C4_MergedBoundariesApart ==
    LastRan("merge_close_boundaries") =>
        \A k \in 1..(Len(boundary_times) - 1) :
            boundary_times[k + 1] - boundary_times[k] >= params.min_gap_sec

\* a direct call that dropped a boundary and kept two
C4_Witness ==
    /\ entry = "merge_close_boundaries"
    /\ pc = "done"
    /\ params.min_gap_sec >= 2
    /\ Len(boundary_times) >= 2
    /\ Len(boundary_times) < Cardinality(Range(boundaries_sec))

\* C5: every highlight segment lies inside its parent shot
\* (shot.start_sec <= start and end <= shot.end_sec) on all three paths
C5_HighlightInsideShot ==
    (entry = "select_highlight_segments" /\ pc = "done") =>
        \A k \in DOMAIN highlights :
            /\ shots[k].start_sec <= highlights[k].start_sec
            /\ highlights[k].end_sec <= shots[k].end_sec

\* C6: for any series x and any window W >= 1, moving_average(x, W) returns
\* exactly len(x) samples, also when W is larger than len(x)
C6_SmoothingKeepsLength ==
    (LastRan("moving_average") /\ pc # "raised" /\ params.smooth_win >= 1) =>
        Len(smoothed) = Len(distances)

\* C7: degenerate input does not throw: with an empty distance series
\* detect_shot_boundaries returns [0.0], and an empty shot list gives empty
\* keyframe and highlight lists
C7_DegenerateInputHandled ==
    /\ (entry = "detect_shot_boundaries" /\ distances = <<>> /\ dist_times = <<>>
          /\ pc \in {"done", "raised"})
       => (pc = "done" /\ boundary_times = <<0>>)
    /\ (entry = "pick_keyframes_middle" /\ shots = <<>> /\ pc \in {"done", "raised"})
       => (pc = "done" /\ keyframes = <<>>)
    /\ (entry = "select_highlight_segments" /\ shots = <<>> /\ pc \in {"done", "raised"})
       => (pc = "done" /\ highlights = <<>>)

\* C8: when dist_times and distances differ in length, detect_shot_boundaries
\* raises before any stage has run and returns nothing
C8_LengthMismatchFailsFast ==
    (entry = "detect_shot_boundaries" /\ Len(dist_times) # Len(distances)) =>
        /\ stages = <<>>
        /\ pc \in {"detect_shot_boundaries", "raised"}
        /\ pc = "raised" => error = "ValueError"
        /\ smoothed = <<>> /\ thr = NaN /\ candidates = <<>> /\ peaks = <<>>
        /\ boundary_times = <<>>

\* a call with one time stamp too many that has raised
C8_Witness ==
    /\ entry = "detect_shot_boundaries"
    /\ Len(dist_times) = Len(distances) + 1
    /\ Len(distances) >= 3
    /\ pc = "raised"
    /\ error = "ValueError"

\* C9: chi_square_distance and combined_distance raise whenever the two
\* vectors of a pair differ in shape, and return no distance then
C9_ShapeMismatchRaises ==
    (/\ entry \in {"chi_square_distance", "combined_distance"}
     /\ pc \in {"done", "raised"}
     /\ \/ Len(vec_p) # Len(vec_q)
        \/ entry = "combined_distance" /\ Len(edge_p) # Len(edge_q))
    => (pc = "raised" /\ error = "ValueError" /\ dist = <<>>)

\* C10: for any non-empty series and any percentile argument the value of
\* auto_threshold lies within [min(series), max(series)]
C10_ThresholdWithinRange ==
    (Ran("auto_threshold") /\ pc # "raised" /\ smoothed # <<>>) =>
        /\ ~thr.nan
        /\ SetMin(Range(smoothed)) * thr.den <= thr.num * smooth_den
        /\ thr.num * smooth_den <= SetMax(Range(smoothed)) * thr.den

\* a direct call with a percentile above the clip range whose threshold is
\* interpolated strictly between the minimum and the maximum
C10_Witness ==
    /\ entry = "auto_threshold"
    /\ pc = "done"
    /\ smoothed # <<>>
    /\ params.threshold_percentile > ClipHi
    /\ SetMin(Range(smoothed)) * thr.den < thr.num * smooth_den
    /\ thr.num * smooth_den < SetMax(Range(smoothed)) * thr.den
    /\ thr.num % 1000 # 0

\* the call filter_short_shots(boundaries_sec, video_duration_sec,
\* min_duration_sec) has returned boundary_times
FilterReturned == entry = "filter_short_shots" /\ pc = "done"

\* C11: filter_short_shots always keeps the first boundary, and every other
\* boundary it keeps is a candidate whose preceding shot (candidate minus the
\* boundary kept before it) is at least min_duration_sec long and which, when
\* it is not the final candidate, starts a shot (next candidate minus
\* candidate) of at least min_duration_sec; for shots of 1.0 s and 0.3 s with
\* min_shot_duration_sec = 2.0 only the boundary 0.0 remains
C11_FilterKeepsLongShotsOnly ==
    FilterReturned =>
        LET s == Sorted(boundaries_sec)
            n == Len(s)
            r == boundary_times
            md == params.min_shot_duration_sec
        IN  /\ n >= 1 => (Len(r) >= 1 /\ r[1] = s[1])
            /\ \A k \in 2..Len(r) :
                  \E i \in 2..n :
                      /\ s[i] = r[k]
                      /\ s[i] - r[k - 1] >= md
                      /\ i < n => s[i + 1] - s[i] >= md
            /\ (/\ boundaries_sec = ScenarioC.boundaries_sec
                /\ video_duration_sec = <<ScenarioC.video_duration_sec>>
                /\ md = ScenarioC.min_shot_duration_sec)
               => r = <<0>>

\* a call that kept a middle boundary and dropped another one whose next
\* shot was long enough for the relaxed rule only
C11_Witness ==
    /\ FilterReturned
    /\ Len(boundaries_sec) = 3
    /\ StrictlyAscending(boundaries_sec)
    /\ params.min_shot_duration_sec >= 2
    /\ boundary_times = <<boundaries_sec[1], boundaries_sec[3]>>
    /\ boundaries_sec[2] - boundaries_sec[1] >= params.min_shot_duration_sec
    /\ 2 * (boundaries_sec[3] - boundaries_sec[2]) >= params.min_shot_duration_sec

\* Scenario C has run: one boundary is left
C11_ScenarioWitness ==
    /\ FilterReturned
    /\ boundaries_sec = ScenarioC.boundaries_sec
    /\ video_duration_sec = <<ScenarioC.video_duration_sec>>
    /\ params.min_shot_duration_sec = ScenarioC.min_shot_duration_sec
    /\ Len(boundary_times) = 1

\* C12: the final candidate of filter_short_shots is kept when the shot
\* preceding it is at least min_duration_sec long and the trailing shot
\* (video_duration_sec minus candidate) is at least half of min_duration_sec;
\* a boundary kept from before the final candidate starts a shot of the full
\* min_duration_sec
C12_RelaxedRuleForLastOnly ==
    (FilterReturned /\ Len(boundaries_sec) >= 2) =>
        LET s == Sorted(boundaries_sec)
            n == Len(s)
            r == boundary_times
            md == params.min_shot_duration_sec
            trailing == video_duration_sec[1] - s[n]
        IN  /\ (s[n] - r[Len(r)] >= md /\ 2 * trailing >= md) => r[Len(r)] = s[n]
            /\ \A k \in 2..Len(r) :
                  r[k] < s[n] =>
                      \E i \in 2..(n - 1) : s[i] = r[k] /\ s[i + 1] - s[i] >= md

\* a call that kept the final candidate under the relaxed rule: its trailing
\* shot is shorter than min_duration_sec
C12_Witness ==
    /\ FilterReturned
    /\ Len(boundaries_sec) = 3
    /\ StrictlyAscending(boundaries_sec)
    /\ params.min_shot_duration_sec >= 2
    /\ Len(boundary_times) >= 2
    /\ boundary_times[Len(boundary_times)] = boundaries_sec[3]
    /\ video_duration_sec[1] - boundaries_sec[3] < params.min_shot_duration_sec

\* all samples of the series are equal
ConstantSeries(x) == \A i, j \in DOMAIN x : x[i] = x[j]

\* C13: for a non-empty constant distance series, which has no scene-change
\* peak, detect_shot_boundaries returns exactly [0.0], for every smooth_win
C13_SingleShotOneBoundary ==
    (/\ entry = "detect_shot_boundaries"
     /\ distances # <<>>
     /\ ConstantSeries(distances)
     /\ Len(dist_times) = Len(distances)
     /\ pc \in {"done", "raised"})
    => (pc = "done" /\ boundary_times = <<0>>)

\* detect_shot_boundaries was called with the input of Scenario A
InScenarioA ==
    /\ entry = "detect_shot_boundaries"
    /\ distances = ScenarioA.distances
    /\ params = ScenarioA.params

\* C14: in Scenario A the threshold is between 9 and 10, the candidates are
\* exactly the indices 3 and 7, both survive suppression, and the boundaries
\* returned are 0.0, dist_times[3] and dist_times[7]
C14_ScenarioATwoPeaks ==
    InScenarioA =>
        /\ Ran("auto_threshold") =>
              /\ ~thr.nan
              /\ 9 * thr.den <= thr.num * smooth_den
              /\ thr.num * smooth_den <= 10 * thr.den
        /\ Ran("find_local_maxima") => candidates = <<3, 7>>
        /\ Ran("non_max_suppression") => peaks = <<3, 7>>
        /\ pc \in {"done", "raised"} =>
              /\ pc = "done"
              /\ boundary_times = SetToSorted({0, dist_times[4], dist_times[8]})

\* Scenario A has returned, the short-shot filter included
C14_Witness ==
    /\ InScenarioA
    /\ pc = "done"
    /\ Ran("filter_short_shots")
    /\ dist_times[1] = 1
    /\ Len(boundary_times) = 3

\* C15: in pick_keyframes_best (default weights), for a shot that contains
\* three sampled frames of which the second has the highest Laplacian
\* variance and a lower frame difference (from frame 1) than the third has
\* (from frame 2), the second frame is the keyframe selected
C15_SharpStableFrameSelected ==
    (/\ entry = "pick_keyframes_best"
     /\ pc \in {"done", "raised"}
     /\ weights = [w_sharpness |-> DefaultWSharpness, w_motion |-> DefaultWMotion]
     /\ Len(shots) = 1
     /\ Len(sampled_frames) = 3
     /\ FramesIn(sampled_frames, shots[1].start_sec, shots[1].end_sec) = <<0, 1, 2>>
     /\ sampled_frames[2].sharpness > sampled_frames[1].sharpness
     /\ sampled_frames[2].sharpness > sampled_frames[3].sharpness
     /\ score_frame_motion(<<sampled_frames[1]>>, sampled_frames[2])
          < score_frame_motion(<<sampled_frames[2]>>, sampled_frames[3]))
    => (pc = "done" /\ Len(keyframes) = 1 /\ keyframes[1].frame = 1)

\* a chi-square distance of 0: every term of the sum is 0
DistIsZero(terms) == \A k \in DOMAIN terms : terms[k].num = 0

\* C16: for equal-length non-negative vectors chi_square_distance is
\* symmetric (d(p, q) = d(q, p)), d(p, p) = 0, and the distance is zero only
\* for identical vectors
C16_ChiSquareSymmetricZeroIffEqual ==
    (entry = "chi_square_distance" /\ pc \in {"done", "raised"}
       /\ Len(vec_p) = Len(vec_q))
    => /\ pc = "done"
       /\ dist = chi_square_distance(vec_q, vec_p, 10).terms
       /\ vec_p = vec_q => DistIsZero(dist)
       /\ DistIsZero(dist) => vec_p = vec_q

\* C17: select_highlight_segments returns exactly one segment per input shot,
\* in shot order, the i-th segment carrying shot_index = i
C17_OneSegmentPerShot ==
    (entry = "select_highlight_segments" /\ pc \in {"done", "raised"}) =>
        /\ pc = "done"
        /\ Len(highlights) = Len(shots)
        /\ \A k \in DOMAIN highlights : highlights[k].shot_index = k - 1

\* two shots, the first no longer than the segment duration and without a
\* frame inside, the second longer and searched with the sliding window
C17_Witness ==
    /\ entry = "select_highlight_segments"
    /\ pc = "done"
    /\ Len(shots) = 2
    /\ shots[1].end_sec - shots[1].start_sec <= segment_duration
    /\ FramesIn(sampled_frames, shots[1].start_sec, shots[1].end_sec) = <<>>
    /\ shots[2].end_sec - shots[2].start_sec > segment_duration
    /\ Len(FramesIn(sampled_frames, shots[2].start_sec, shots[2].end_sec)) >= 2
    /\ Len(highlights) = 2

\* the defaults C18 states, numbers in tenths
C18_StatedDefaults ==
    [keep_audio |-> TRUE, threshold_percentile |-> 870, max_summary_duration |-> 900]

\* C18: summarize accepts the parameters keep_audio, threshold_percentile and
\* max_summary_duration (a call passing any of them is bound without error),
\* and the ones a call leaves out take the defaults True, 87.0 and 90.0
C18_SummarizeParameters ==
    (/\ entry = "summarize"
     /\ pc \in {"done", "raised"}
     /\ DOMAIN call_kwargs \subseteq SummarizeRequired \cup DOMAIN C18_StatedDefaults)
    => /\ pc = "done"
       /\ \A n \in DOMAIN C18_StatedDefaults \ DOMAIN call_kwargs :
             n \in DOMAIN arguments /\ arguments[n] = C18_StatedDefaults[n]

\* x[i] of the series find_local_maxima ran on, i a Python index
SmoothedAt(i) == smoothed[i + 1]

\* C19: find_local_maxima returns exactly the interior indices i
\* (0 < i < len - 1) with x[i] >= thr, x[i] > x[i-1] and x[i] >= x[i+1], in
\* ascending order; a sample equal to its predecessor (inside a plateau) is no
\* candidate, and neither is the first or the last sample
C19_CandidatesAreInteriorRises ==
    Ran("find_local_maxima") =>
        LET n == Len(smoothed)
        IN  /\ Range(candidates) =
                  {i \in 0..(n - 1) :
                     /\ 0 < i /\ i < n - 1
                     /\ ~thr.nan
                     /\ SmoothedAt(i) * thr.den >= thr.num * smooth_den
                     /\ SmoothedAt(i) > SmoothedAt(i - 1)
                     /\ SmoothedAt(i) >= SmoothedAt(i + 1)}
            /\ StrictlyAscending(candidates)
            /\ \A k \in DOMAIN candidates :
                  /\ candidates[k] # 0
                  /\ candidates[k] # n - 1
                  /\ SmoothedAt(candidates[k]) # SmoothedAt(candidates[k] - 1)

\* a direct call on a series with a plateau: its first sample is a candidate,
\* its second is not
C19_Witness ==
    /\ entry = "find_local_maxima"
    /\ pc = "done"
    /\ \E k \in DOMAIN candidates :
          /\ candidates[k] + 1 < Len(smoothed) - 1
          /\ SmoothedAt(candidates[k]) = SmoothedAt(candidates[k] + 1)
          /\ \A j \in DOMAIN candidates : candidates[j] # candidates[k] + 1
    /\ thr.num > 0

\* the position in the candidate list of the highest-scoring candidate, the
\* earliest listed among equal scores (the lowest index in an ascending list)
StrongestCandidate ==
    SetMin({k \in DOMAIN candidates :
              \A j \in DOMAIN candidates :
                  smoothed[candidates[k] + 1] >= smoothed[candidates[j] + 1]})

\* C20: non_max_suppression keeps the strongest peak of every cluster: the
\* highest-scoring candidate (the earliest one among equal scores) is in the
\* result, and every rejected candidate lies within min_gap samples of a
\* selected candidate whose score is at least its own
C20_StrongestPeakKept ==
    Ran("non_max_suppression") =>
        /\ candidates # <<>> => candidates[StrongestCandidate] \in Range(peaks)
        /\ \A k \in DOMAIN candidates :
              candidates[k] \notin Range(peaks) =>
                  \E j \in DOMAIN peaks :
                      /\ Abs(peaks[j] - candidates[k]) <= min_gap
                      /\ smoothed[peaks[j] + 1] >= smoothed[candidates[k] + 1]

\* a direct call in which two candidates of the same, highest score lie
\* within min_gap of each other and the later one was rejected
C20_Witness ==
    /\ entry = "non_max_suppression"
    /\ pc = "done"
    /\ \E k, j \in DOMAIN candidates :
          /\ k = StrongestCandidate
          /\ k < j
          /\ candidates[k] < candidates[j]
          /\ smoothed[candidates[k] + 1] = smoothed[candidates[j] + 1]
          /\ candidates[j] - candidates[k] <= min_gap
          /\ candidates[j] \notin Range(peaks)

\* C21: moving_average with W > 1 is a centred moving average whose edge
\* samples are not biased toward zero: for a constant series of value c every
\* output sample, also within W/2 of either end, equals c
C21_ConstantSeriesUnbiased ==
    (/\ LastRan("moving_average")
     /\ pc # "raised"
     /\ params.smooth_win > 1
     /\ distances # <<>>
     /\ ConstantSeries(distances))
    => \A k \in DOMAIN smoothed : smoothed[k] = distances[1] * smooth_den

\* C22: auto_threshold clips the requested percentile P to [50.0, 99.9]
\* before use: a P below 50 gives the threshold of P = 50, a P above 99.9 the
\* threshold of P = 99.9, and the result is the clipped-P percentile of the
\* series
C22_PercentileClipped ==
    (Ran("auto_threshold") /\ pc # "raised" /\ smoothed # <<>>) =>
        LET P == params.threshold_percentile
            clipped == IF P < ClipLo THEN ClipLo ELSE IF P > ClipHi THEN ClipHi ELSE P
        IN  /\ ~thr.nan
            /\ thr.den = 1000 * smooth_den
            /\ thr.num = Percentile(smoothed, clipped)
            /\ P < ClipLo => thr.num = Percentile(smoothed, ClipLo)
            /\ P > ClipHi => thr.num = Percentile(smoothed, ClipHi)

\* a direct call with P = 0 whose threshold, the median, is above the
\* minimum of the series that the percentile 0 is
C22_Witness ==
    /\ entry = "auto_threshold"
    /\ pc = "done"
    /\ Len(smoothed) >= 3
    /\ params.threshold_percentile = 0
    /\ thr.num = Percentile(smoothed, ClipLo)
    /\ thr.num > Percentile(smoothed, 0)

\* the indices of the frames whose time stamp lies in [start_sec, end_sec) of
\* the shot, ascending
FramesInsideShot(frames, shot) ==
    SetToSorted({i \in 0..(Len(frames) - 1) :
                   /\ shot.start_sec <= frames[i + 1].timestamp_sec
                   /\ frames[i + 1].timestamp_sec < shot.end_sec})

\* the indices of the frames at the least distance from the shot's midpoint
FramesClosestToMidpoint(frames, shot) ==
    LET d(i) == Abs(2 * frames[i + 1].timestamp_sec - (shot.start_sec + shot.end_sec))
    IN  {i \in 0..(Len(frames) - 1) : \A j \in 0..(Len(frames) - 1) : d(i) <= d(j)}

\* whether the frame index f is a best keyframe of the shot among the
\* candidate indices cand (ascending): its combined score, taken against the
\* candidate before it, is the maximum, and no earlier candidate reaches it
IsBestOf(frames, cand, f, w_sharpness, w_motion) ==
    LET sc == WindowScores(frames, cand, w_sharpness, w_motion)
    IN  \E k \in DOMAIN cand :
            /\ cand[k] = f
            /\ \A j \in DOMAIN cand : sc[j] <= sc[k]
            /\ \A j \in 1..(k - 1) : sc[j] < sc[k]

\* C23: pick_keyframes_best considers for each shot only the sampled frames
\* with start_sec <= timestamp < end_sec (or, when there is none, the single
\* frame closest to the shot's midpoint) and returns the candidate of the
\* maximum combined score, the earliest among equal maxima; the result has
\* one ScoredKeyframe per shot, with shot_index the shot's position
C23_BestKeyframePerShot ==
    (entry = "pick_keyframes_best" /\ pc \in {"done", "raised"} /\ sampled_frames # <<>>)
    => /\ pc = "done"
       /\ Len(keyframes) = Len(shots)
       /\ \A k \in DOMAIN keyframes :
             LET inside == FramesInsideShot(sampled_frames, shots[k])
             IN  /\ keyframes[k].shot_index = k - 1
                 /\ IF inside = <<>>
                    THEN keyframes[k].frame
                             \in FramesClosestToMidpoint(sampled_frames, shots[k])
                    ELSE IsBestOf(sampled_frames, inside, keyframes[k].frame,
                                  weights.w_sharpness, weights.w_motion)

\* C24: pick_keyframes_middle returns exactly one frame per shot, the frame
\* that minimises |timestamp - (start_sec + end_sec) / 2| over all sampled
\* frames (the earliest such frame on a tie), inside the shot or not
C24_MiddleFrameClosest ==
    (entry = "pick_keyframes_middle" /\ pc \in {"done", "raised"} /\ sampled_frames # <<>>)
    => /\ pc = "done"
       /\ Len(keyframes) = Len(shots)
       /\ \A k \in DOMAIN keyframes :
             keyframes[k] = SetMin(FramesClosestToMidpoint(sampled_frames, shots[k]))

\* equality of two rationals [num, den]
RatEq(a, b) == a.num * b.den = b.num * a.den

\* C25: for a shot no longer than segment_duration select_highlight_segments
\* emits the whole shot [start_sec, end_sec], with the score the mean over
\* the frames contained in the shot of the combined quality (sharpness, and
\* motion against the preceding frame in the shot, weighted by the caller's
\* w_sharpness and w_motion), or 0.5 when the shot contains no sampled frame
C25_ShortShotWholeAndScored ==
    (entry = "select_highlight_segments" /\ pc \in {"done", "raised"}) =>
        /\ pc = "done"
        /\ Len(highlights) = Len(shots)
        /\ \A k \in DOMAIN shots :
              shots[k].end_sec - shots[k].start_sec <= segment_duration =>
                  LET inside == FramesIn(sampled_frames, shots[k].start_sec,
                                         shots[k].end_sec)
                  IN  /\ highlights[k].start_sec = shots[k].start_sec
                      /\ highlights[k].end_sec = shots[k].end_sec
                      /\ RatEq(highlights[k].score,
                               IF inside = <<>> THEN [num |-> ScoreOne, den |-> 2]
                               ELSE Mean(WindowScores(sampled_frames, inside,
                                                      weights.w_sharpness,
                                                      weights.w_motion)))

\* the candidate window starts of a shot: the time stamps of the frames
\* contained in it whose window ends inside the shot, or the shot's start
\* when there is none
CandidateWindowStarts(frames, shot, seg) ==
    LET inside == FramesInsideShot(frames, shot)
        fit == {frames[inside[k] + 1].timestamp_sec : k \in DOMAIN inside}
                   \cap {t \in 0..shot.end_sec : t + seg <= shot.end_sec}
    IN  IF fit = {} THEN {shot.start_sec} ELSE fit

\* the average frame score of the window [start, start + seg): each frame
\* against the previous frame of the window, 0 for a window without a frame
WindowAverage(frames, start, seg, w_sharpness, w_motion) ==
    LET idx == FramesInsideShot(frames, [start_sec |-> start, end_sec |-> start + seg])
    IN  IF idx = <<>> THEN [num |-> 0, den |-> 1]
        ELSE Mean(WindowScores(frames, idx, w_sharpness, w_motion))

\* C26: for a shot longer than segment_duration that contains at least two
\* sampled frames, the highlight emitted is one of the candidate windows (a
\* window starting at a contained frame's time stamp with
\* start + segment_duration <= shot.end_sec, or the forced window at
\* shot.start_sec when no start qualifies), its score is that window's
\* average frame score, no other candidate window has a strictly higher
\* average, and among equal averages the earliest window is emitted
C26_BestWindowEmitted ==
    (entry = "select_highlight_segments" /\ pc \in {"done", "raised"}) =>
        /\ pc = "done"
        /\ Len(highlights) = Len(shots)
        /\ \A k \in DOMAIN shots :
              (/\ shots[k].end_sec - shots[k].start_sec > segment_duration
               /\ Len(FramesInsideShot(sampled_frames, shots[k])) >= 2)
              => LET avg(s) == WindowAverage(sampled_frames, s, segment_duration,
                                             weights.w_sharpness, weights.w_motion)
                     starts == CandidateWindowStarts(sampled_frames, shots[k],
                                                     segment_duration)
                 IN  \E s \in starts :
                        /\ highlights[k].start_sec = s
                        /\ highlights[k].end_sec = s + segment_duration
                        /\ RatEq(highlights[k].score, avg(s))
                        /\ \A o \in starts : ~RatGt(avg(o), avg(s))
                        /\ \A o \in starts : o < s => RatGt(avg(s), avg(o))

Reverse(s) == [k \in DOMAIN s |-> s[Len(s) + 1 - k]]

\* two results for a shot that agree in everything but the shot's position
SameButIndex(a, b) == [a EXCEPT !.shot_index = 0] = [b EXCEPT !.shot_index = 0]

\* the result of a call equals, shot by shot, the result of the call on that
\* shot alone and the result of the call on the shots in reverse order
PerShotIndependent ==
    /\ (entry = "pick_keyframes_best" /\ pc = "done") =>
          LET w == weights
              rev == pick_keyframes_best(Reverse(shots), sampled_frames,
                                         w.w_sharpness, w.w_motion).keyframes
          IN  /\ Len(keyframes) = Len(shots)
              /\ Len(rev) = Len(shots)
              /\ \A k \in DOMAIN shots :
                    LET alone == pick_keyframes_best(<<shots[k]>>, sampled_frames,
                                                     w.w_sharpness, w.w_motion).keyframes
                    IN  /\ Len(alone) = 1
                        /\ SameButIndex(keyframes[k], alone[1])
                        /\ SameButIndex(keyframes[k], rev[Len(shots) + 1 - k])
    /\ (entry = "select_highlight_segments" /\ pc = "done") =>
          LET w == weights
              rev == select_highlight_segments(Reverse(shots), sampled_frames,
                                               segment_duration, w.w_sharpness,
                                               w.w_motion)
          IN  /\ Len(highlights) = Len(shots)
              /\ \A k \in DOMAIN shots :
                    LET alone == select_highlight_segments(<<shots[k]>>, sampled_frames,
                                                           segment_duration,
                                                           w.w_sharpness, w.w_motion)
                    IN  /\ SameButIndex(highlights[k], alone[1])
                        /\ SameButIndex(highlights[k], rev[Len(shots) + 1 - k])

\* a step of pick_keyframes_best or select_highlight_segments leaves the shot
\* list and the sampled frames as they were
InputsReadOnly ==
    (pc \in {"pick_keyframes_best", "select_highlight_segments"}) =>
        (shots' = shots /\ sampled_frames' = sampled_frames)

\* C27: the per-shot work of pick_keyframes_best and
\* select_highlight_segments is independent and read-only: the keyframe and
\* the highlight of a shot depend only on that shot and the frame sequence
\* (the shot alone, or the shots in another order, give the same start, end,
\* score and frame), and neither function modifies the shot list or the
\* sampled frames
C27_PerShotIndependentReadOnly == [](PerShotIndependent) /\ [][InputsReadOnly]_vars

\* pick_keyframes_best has returned the keyframes of two shots, the second a
\* first frame of its shot (motion 0) that differs from the frame before it
C27_Witness ==
    /\ entry = "pick_keyframes_best"
    /\ pc = "done"
    /\ Len(shots) = 2
    /\ Len(keyframes) = 2
    /\ keyframes[2].frame > keyframes[1].frame
    /\ keyframes[2].motion_score = 0
    /\ sampled_frames[keyframes[2].frame].level
         # sampled_frames[keyframes[2].frame + 1].level

\* the shots build_shots makes of the boundaries filter_short_shots returned
ShotsOfFiltered == build_shots(boundary_times, video_duration_sec[1])

ShotLength(shot) == shot.end_sec - shot.start_sec

\* C28: for a strictly ascending boundary list starting at 0.0 with every
\* boundary below video_duration_sec and min_duration_sec > 0, the shots built
\* from the output of filter_short_shots meet the minimum length: every shot
\* but the last lasts at least min_duration_sec, and when more than one
\* boundary is kept the last shot lasts at least half of min_duration_sec
C28_FilteredShotsLongEnough ==
    (/\ FilterReturned
     /\ Len(boundaries_sec) >= 1
     /\ boundaries_sec[1] = 0
     /\ StrictlyAscending(boundaries_sec)
     /\ \A k \in DOMAIN boundaries_sec : boundaries_sec[k] < video_duration_sec[1]
     /\ params.min_shot_duration_sec > 0)
    => LET sh == ShotsOfFiltered
           md == params.min_shot_duration_sec
       IN  /\ Len(sh) = Len(boundary_times)
           /\ \A k \in 1..(Len(sh) - 1) : ShotLength(sh[k]) >= md
           /\ Len(boundary_times) > 1 => 2 * ShotLength(sh[Len(sh)]) >= md

\* three boundaries in, one dropped: two shots, the first of at least
\* min_duration_sec, the last shorter than min_duration_sec
C28_Witness ==
    /\ FilterReturned
    /\ Len(boundaries_sec) = 3
    /\ boundaries_sec[1] = 0
    /\ StrictlyAscending(boundaries_sec)
    /\ boundaries_sec[3] < video_duration_sec[1]
    /\ params.min_shot_duration_sec >= 2
    /\ Len(ShotsOfFiltered) = 2
    /\ ShotLength(ShotsOfFiltered[2]) < params.min_shot_duration_sec

\* the call make_summary_with_audio has returned or raised
AvEnded == entry = "make_summary_with_audio" /\ pc \in {"done", "raised"}

\* the positions in the ffmpeg runs of the cuts, and of the concatenations
CutRuns == {k \in DOMAIN av.runs : av.runs[k].op = "cut"}

ConcatRuns == {k \in DOMAIN av.runs : av.runs[k].op = "concat"}

\* the segments cut so far, in input order
CutSegments == SetToSorted({av.runs[k].segment : k \in {c \in CutRuns : av.runs[c].ok}})

AvReturnedSuccess == av.result # <<>> /\ av.result[1].success

\* C29: make_summary_with_audio tries a stream-copy cut for each segment first
\* and a re-encode cut only after that segment's stream-copy cut failed, and
\* likewise for the concatenation; it returns success exactly when at least
\* one segment was cut and one of the two concatenation attempts succeeded;
\* when every cut failed it returns (False, "All segment cuts failed")
\* without attempting a concatenation; and it concatenates the segments cut
\* in their input order
C29_CutThenConcatWithFallback ==
    entry = "make_summary_with_audio" =>
        LET runs == av.runs
        IN  /\ \A k \in CutRuns :
                  IF runs[k].stream_copy
                  THEN \A j \in CutRuns : j < k => runs[j].segment < runs[k].segment
                  ELSE k > 1 /\ runs[k - 1] = CutRun(runs[k].segment, TRUE, FALSE)
            /\ \A k \in ConcatRuns :
                  /\ IF runs[k].stream_copy
                     THEN \A j \in ConcatRuns : j >= k
                     ELSE k > 1 /\ runs[k - 1] = ConcatRun(runs[k].inputs, TRUE, FALSE)
                  /\ runs[k].inputs = CutSegments
                  /\ \A j \in CutRuns : j < k
            /\ AvEnded =>
                  (AvReturnedSuccess <=>
                      /\ \E k \in CutRuns : runs[k].ok
                      /\ \E k \in ConcatRuns : runs[k].ok)
            /\ (pc = "done" /\ CutRuns # {} /\ \A k \in CutRuns : ~runs[k].ok) =>
                  /\ av.result # <<>>
                  /\ ~av.result[1].success
                  /\ av.result[1].message = "All segment cuts failed"
                  /\ ConcatRuns = {}

\* a call that returned success after the re-encode concatenation of two
\* segments, one of them cut by re-encoding, a third one having failed both
\* cuts
C29_Witness ==
    /\ AvEnded
    /\ AvReturnedSuccess
    /\ Len(av.result[1].failed) = 1
    /\ Len(CutSegments) = 2
    /\ \E k \in CutRuns : ~av.runs[k].stream_copy /\ av.runs[k].ok
    /\ \E k \in ConcatRuns : ~av.runs[k].stream_copy /\ av.runs[k].ok

\* a call in which every cut failed: no concatenation, no success
C29_AllCutsFailedWitness ==
    /\ AvEnded
    /\ Len(av_args.segments) = 2
    /\ Len(av.runs) = 4
    /\ av.result # <<>>
    /\ av.result[1].message = "All segment cuts failed"

\* make_summary_video is running on a video that opened, or has ended
InSummaryVideo ==
    /\ entry = "make_summary_video"
    /\ sv_args.video.opened
    /\ sv_args.video.fps > 0

\* the number of frames written for the shot at position j
FramesWrittenFor(j) == Cardinality({k \in DOMAIN sv.writes : sv.writes[k].shot = j})

\* C30: in make_summary_video with max_duration > 0 the number of frames
\* written never exceeds int(max_duration * fps) at any point of the loop over
\* shots, and no further shot is read once that limit is reached; with
\* max_duration = 0 there is no total limit and each shot contributes at most
\* round(secs_per_shot * fps) frames
C30_SummaryWithinMaxDuration ==
    InSummaryVideo =>
        LET fps == sv_args.video.fps
            limit == (sv_args.max_duration * fps) \div 10
            per_shot == RoundHalfEven(sv_args.secs_per_shot * fps, 10)
        IN  /\ sv_args.max_duration > 0 =>
                  /\ sv.written <= limit
                  /\ Len(sv.writes) = sv.written
                  /\ \A k \in DOMAIN sv.seeks : sv.seeks[k].written < limit
                  /\ \A k \in DOMAIN sv.reads : sv.reads[k].written < limit
            /\ sv_args.max_duration = 0 =>
                  /\ \A j \in 0..(Len(shots) - 1) : FramesWrittenFor(j) <= per_shot
                  /\ (/\ pc = "done"
                      /\ sv_args.video.readable >= sv_args.video.total_frames)
                     => \A j \in 0..(Len(shots) - 1) :
                           LET first == shots[j + 1].start_sec * fps
                               last == Min2(Min2(first + per_shot,
                                                 shots[j + 1].end_sec * fps),
                                            sv_args.video.total_frames - 1)
                           IN  FramesWrittenFor(j) = Max2(0, last - first)

\* a call with max_duration > 0 that returned with the limit reached inside
\* the second shot, the third shot not read
C30_Witness ==
    /\ InSummaryVideo
    /\ pc = "done"
    /\ sv_args.max_duration > 0
    /\ sv.written = (sv_args.max_duration * sv_args.video.fps) \div 10
    /\ Len(shots) = 3
    /\ Len(sv.seeks) = 2
    /\ FramesWrittenFor(1) >= 1
    /\ FramesWrittenFor(1)
         < RoundHalfEven(sv_args.secs_per_shot * sv_args.video.fps, 10)
    /\ shots[2].end_sec - shots[2].start_sec > FramesWrittenFor(1)

\* a call with max_duration = 0 that returned frames of three shots, one of
\* them round(secs_per_shot * fps) frames
C30_UnlimitedWitness ==
    /\ InSummaryVideo
    /\ pc = "done"
    /\ sv_args.max_duration = 0
    /\ Len(shots) = 3
    /\ \A j \in 0..2 : FramesWrittenFor(j) >= 1
    /\ \E j \in 0..2 :
          FramesWrittenFor(j) = RoundHalfEven(sv_args.secs_per_shot * sv_args.video.fps, 10)
    /\ sv.result[1].written = sv.written

====
